---------------------------- MODULE Spec2Model ----------------------------
(***************************************************************************)
(* A model of tier4/ota-metadata: the manifest record format written by    *)
(* metadata_gen.py and parsed by data_gen.py, the reconstruction done by   *)
(* data_gen.gen_data, and the kernel pruning of metadata_gen.py.           *)
(*                                                                         *)
(* Text is modelled as it is: a string is a sequence of one-character      *)
(* strings, and the regular expressions of data_gen.py are evaluated with  *)
(* the greedy, backtracking semantics of Python's re.match.                *)
(***************************************************************************)
EXTENDS Integers, Sequences, FiniteSets, TLC

(***************************************************************************)
(* Characters and numbers                                                  *)
(***************************************************************************)
Q == "'"
BS == "\\"
COMMA == ","
SLASH == "/"
DOT == "."

Digits == {"0", "1", "2", "3", "4", "5", "6", "7", "8", "9"}

\* The characters of the model that Python's \w matches.
WordChars ==
    Digits \cup {"_"} \cup {"a", "b", "c", "d", "e", "f", "g", "h", "i", "j",
    "k", "l", "m", "n", "o", "p", "q", "r", "s", "t", "u", "v", "w", "x", "y",
    "z"} \cup {"A", "B", "C", "D", "E", "F", "G", "H", "I", "J", "K", "L",
    "M", "N", "O", "P", "Q", "R", "S", "T", "U", "V", "W", "X", "Y", "Z"}

DigitVal(c) ==
    CASE c = "0" -> 0 [] c = "1" -> 1 [] c = "2" -> 2 [] c = "3" -> 3
      [] c = "4" -> 4 [] c = "5" -> 5 [] c = "6" -> 6 [] c = "7" -> 7
      [] c = "8" -> 8 [] c = "9" -> 9

DigitChar(n) ==
    CASE n = 0 -> "0" [] n = 1 -> "1" [] n = 2 -> "2" [] n = 3 -> "3"
      [] n = 4 -> "4" [] n = 5 -> "5" [] n = 6 -> "6" [] n = 7 -> "7"
      [] n = 8 -> "8" [] n = 9 -> "9"

\* int(s, base) of a non-empty digit string; -1 stands for ValueError
\* (a digit that is not a digit of the base).
RECURSIVE IntOf(_, _)
IntOf(s, base) ==
    IF Len(s) = 0 THEN 0
    ELSE LET hi == IntOf(SubSeq(s, 1, Len(s) - 1), base)
             d == DigitVal(s[Len(s)])
         IN IF hi < 0 \/ d >= base THEN -1 ELSE hi * base + d

\* str(n) of a natural number
RECURSIVE Str(_)
Str(n) == IF n < 10 THEN <<DigitChar(n)>> ELSE Str(n \div 10) \o <<DigitChar(n % 10)>>

\* oct(st_mode)[-4:]: the last four octal digits of st_mode. st_mode always
\* carries the file type above the twelve permission bits, so the slice is
\* the permission bits written with four octal digits.
OctMode(perm) ==
    << DigitChar((perm \div 512) % 8), DigitChar((perm \div 64) % 8),
       DigitChar((perm \div 8) % 8), DigitChar(perm % 8) >>

\* The length of the longest run of characters of class cls in s from index i.
RECURSIVE RunLen(_, _, _)
RunLen(s, i, cls) ==
    IF i <= Len(s) /\ s[i] \in cls THEN 1 + RunLen(s, i + 1, cls) ELSE 0

Tail2(s, i) == IF i > Len(s) THEN <<>> ELSE SubSeq(s, i, Len(s))

StartsWith(s, p) == Len(s) >= Len(p) /\ SubSeq(s, 1, Len(p)) = p

(***************************************************************************)
(* Escaping: metadata_gen._encapsulate and data_gen._BaseInf.de_escape     *)
(***************************************************************************)
EscQ == <<Q, BS, Q, Q>>

\* name.replace("'", "'\\''")
RECURSIVE Escape(_)
Escape(s) ==
    IF Len(s) = 0 THEN <<>>
    ELSE (IF s[1] = Q THEN EscQ ELSE <<s[1]>>) \o Escape(Tail(s))

\* s.replace("'\\''", "'"): the leftmost, non-overlapping occurrences
RECURSIVE DeEscape(_)
DeEscape(s) ==
    IF Len(s) = 0 THEN <<>>
    ELSE IF StartsWith(s, EscQ) THEN <<Q>> \o DeEscape(Tail2(s, 5))
    ELSE <<s[1]>> \o DeEscape(Tail(s))

\* os.path.join(a, b) for POSIX paths
PathJoin(a, b) ==
    IF Len(b) > 0 /\ b[1] = SLASH THEN b
    ELSE IF Len(a) = 0 \/ a[Len(a)] = SLASH THEN a \o b
    ELSE a \o <<SLASH>> \o b

Encapsulate(name, prefix) == <<Q>> \o PathJoin(prefix, Escape(name)) \o <<Q>>

(***************************************************************************)
(* str(pathlib.Path(s)) on POSIX: repeated slashes, "." components and a   *)
(* trailing slash are dropped; exactly two leading slashes are kept.       *)
(***************************************************************************)
\* The components of s between slashes, without the empty ones and ".".
RECURSIVE PathParts(_, _)
PathParts(s, cur) ==
    LET keep == IF cur = <<>> \/ cur = <<DOT>> THEN <<>> ELSE <<cur>>
    IN IF Len(s) = 0 THEN keep
       ELSE IF s[1] = SLASH THEN keep \o PathParts(Tail(s), <<>>)
       ELSE PathParts(Tail(s), cur \o <<s[1]>>)

RECURSIVE JoinParts(_)
JoinParts(ps) ==
    IF Len(ps) = 0 THEN <<>>
    ELSE IF Len(ps) = 1 THEN ps[1]
    ELSE ps[1] \o <<SLASH>> \o JoinParts(Tail(ps))

PathRoot(s) ==
    LET n == RunLen(s, 1, {SLASH})
    IN IF n = 0 THEN <<>> ELSE IF n = 2 THEN <<SLASH, SLASH>> ELSE <<SLASH>>

PathStr(s) ==
    LET r == PathRoot(s)
        ps == PathParts(s, <<>>)
    IN IF r = <<>> /\ ps = <<>> THEN <<DOT>> ELSE r \o JoinParts(ps)


(***************************************************************************)
(* data_gen.py: the record parsers.  A parse result is a record whose err  *)
(* field is "" on success and the name of the raised exception otherwise.  *)
(* An optional group that did not take part in the match (Python's None)   *)
(* is the empty sequence for a string and -1 for a number.                 *)
(***************************************************************************)
Failed(e) ==
    [err |-> e, mode |-> 0, uid |-> 0, gid |-> 0, path |-> <<>>, target |-> <<>>,
     nlink |-> 0, hash |-> <<>>, size |-> -1, inode |-> <<>>, alg |-> <<>>]

\* The pattern c1+,c2+,...,cn+, from index pos of s, for the character
\* classes c1..cn: the index of the last character of each run, every run
\* non-empty and followed by a comma; <<>> when s does not match.
RECURSIVE RunsFrom(_, _, _, _)
RunsStep(s, pos, classes, acc, n) ==
    IF n >= 1 /\ pos + n <= Len(s) /\ s[pos + n] = COMMA
    THEN RunsFrom(s, pos + n + 1, Tail(classes), Append(acc, pos + n - 1))
    ELSE <<>>

RunsFrom(s, pos, classes, acc) ==
    IF Len(classes) = 0 THEN acc
    ELSE RunsStep(s, pos, classes, acc, RunLen(s, pos, Head(classes)))

BaseResult(e, mode, uid, gid, left) ==
    [err |-> e, mode |-> mode, uid |-> uid, gid |-> gid, left |-> left]

\* int(mode, 8), int(uid), int(gid) and _left
BaseInts(mode, uid, gid, left) ==
    IF mode < 0 THEN BaseResult("ValueError", 0, 0, 0, <<>>)
    ELSE BaseResult("", mode, uid, gid, left)

\* assert match_res is not None, then the groups of the match m
BaseOf(info, m) ==
    IF m = <<>> THEN BaseResult("AssertionError", 0, 0, 0, <<>>)
    ELSE BaseInts(IntOf(SubSeq(info, 1, m[1]), 8),
                  IntOf(SubSeq(info, m[1] + 2, m[2]), 10),
                  IntOf(SubSeq(info, m[2] + 2, m[3]), 10),
                  Tail2(info, m[3] + 2))

\* _BaseInf.__init__: _base_pattern is (\d+),(\d+),(\d+),(.*)
BaseInf(info) == BaseOf(info, RunsFrom(info, 1, <<Digits, Digits, Digits>>, <<>>))

\* s[1:-1]
Strip1(s) == IF Len(s) <= 2 THEN <<>> ELSE SubSeq(s, 2, Len(s) - 1)

\* The *Inf object of a record whose prefix parsed to b
Parsed(b, path, target) ==
    [Failed("") EXCEPT !.mode = b.mode, !.uid = b.uid, !.gid = b.gid,
                       !.path = path, !.target = target]

DirectoryOf(b) ==
    IF b.err # "" THEN Failed(b.err)
    ELSE Parsed(b, PathStr(DeEscape(Strip1(b.left))), <<>>)

\* DirectoryInf.__init__
DirectoryInf(info) == DirectoryOf(BaseInf(info))

\* The greatest element of a non-empty set of integers
MaxOf(S) == CHOOSE x \in S : \A y \in S : y <= x

\* SymbolicLinkInf._pattern: '(?P<link>.+)((?<!\')',')(?P<target>.+)'
\* The separator follows a link that ends at index i: the three characters
\* ',' come next and the character at i is not a quote (the lookbehind).
SepAfter(left, i) ==
    /\ i + 3 <= Len(left)
    /\ left[i] # Q
    /\ left[i + 1] = Q /\ left[i + 2] = COMMA /\ left[i + 3] = Q

\* The indices from lo on where left has a quote
QuotesFrom(left, lo) == {j \in lo..Len(left) : left[j] = Q}

\* The ends of <link> for which the rest of the pattern matches.
LinkEnds(left) ==
    {i \in 2..Len(left) : SepAfter(left, i) /\ QuotesFrom(left, i + 5) # {}}

\* <link> ends at i; <target> is greedy and ends before the last quote
SymbolicLinkCut(b, left, i) ==
    Parsed(b, PathStr(DeEscape(SubSeq(left, 2, i))),
           PathStr(DeEscape(SubSeq(left, i + 4, MaxOf(QuotesFrom(left, i + 5)) - 1))))

\* <link> is greedy: it ends at the last place that lets the pattern match
SymbolicLinkMatch(b, left, ends) ==
    IF Len(left) = 0 \/ left[1] # Q \/ ends = {} THEN Failed("AssertionError")
    ELSE SymbolicLinkCut(b, left, MaxOf(ends))

SymbolicLinkOf(b) ==
    IF b.err # "" THEN Failed(b.err) ELSE SymbolicLinkMatch(b, b.left, LinkEnds(b.left))

\* SymbolicLinkInf.__init__
SymbolicLinkInf(info) == SymbolicLinkOf(BaseInf(info))

\* An optional group of class cls after a comma at index t of s (the regex
\* (,(cls+)? ...)?): the matched characters, or <<>> when the comma is not
\* there or no character of the class follows it.  t is 0 when an
\* enclosing group was already left out.
OptField(s, t, cls) ==
    IF t > 0 /\ t <= Len(s) /\ s[t] = COMMA
    THEN SubSeq(s, t + 1, t + RunLen(s, t + 1, cls))
    ELSE <<>>

\* OptNext with the inner group not optional, as in (,(\d+)(...)?)?: an
\* empty field ends the match, so the fields after it are never read.
OptNextRequired(s, t, cls) ==
    IF t > 0 /\ t <= Len(s) /\ s[t] = COMMA /\ RunLen(s, t + 1, cls) > 0
    THEN t + 1 + RunLen(s, t + 1, cls)
    ELSE 0

\* The index after an optional group that starts at t (0 when the comma is
\* not there or an enclosing group was already left out).
OptNext(s, t, cls) ==
    IF t > 0 /\ t <= Len(s) /\ s[t] = COMMA THEN t + 1 + RunLen(s, t + 1, cls) ELSE 0

\* None if size is None else int(size)
SizeOf(text) == IF text = <<>> THEN -1 ELSE IntOf(text, 10)

\* The groups of RegularInf._pattern: nlink and hash end at m[1] and m[2],
\* the closing quote of <path> is at j, the inode and compressed_alg groups
\* start at t2 and t3
RegularFields(b, left, m, j, t2, t3) ==
    [Parsed(b, PathStr(DeEscape(SubSeq(left, m[2] + 3, j - 1))), <<>>)
        EXCEPT !.nlink = IntOf(SubSeq(left, 1, m[1]), 10),
               !.hash = SubSeq(left, m[1] + 2, m[2]),
               !.size = SizeOf(OptField(left, j + 1, Digits)),
               !.inode = OptField(left, t2, Digits),
               !.alg = OptField(left, t3, WordChars)]

RegularTail(b, left, m, j, t2) ==
    RegularFields(b, left, m, j, t2, OptNext(left, t2, Digits))

\* <path> is greedy: it ends before the last quote of the line
RegularPath(b, left, m, closes) ==
    IF closes = {} THEN Failed("AssertionError")
    ELSE RegularTail(b, left, m, MaxOf(closes), OptNext(left, MaxOf(closes) + 1, Digits))

\* (?P<nlink>\d+),(?P<hash>\w+),'(?P<path>.+)' and the optional groups
RegularMatch(b, left, m) ==
    IF m = <<>> \/ Len(left) < m[2] + 2 \/ left[m[2] + 2] # Q
    THEN Failed("AssertionError")
    ELSE RegularPath(b, left, m, QuotesFrom(left, m[2] + 4))

RegularOf(b) ==
    IF b.err # "" THEN Failed(b.err)
    ELSE RegularMatch(b, b.left, RunsFrom(b.left, 1, <<Digits, WordChars>>, <<>>))

\* RegularInf.__init__
RegularInf(info) == RegularOf(BaseInf(info))

(***************************************************************************)
(* metadata_gen.py: the record writers of gen_metadata.  st is the lstat   *)
(* of the path: [mode, uid, gid, nlink].                                   *)
(***************************************************************************)
\* _join_mode_uid_gid
JoinModeUidGid(st, nlink) ==
    OctMode(st.mode) \o <<COMMA>> \o Str(st.uid) \o <<COMMA>> \o Str(st.gid)
        \o (IF nlink THEN <<COMMA>> \o Str(st.nlink) ELSE <<>>)

\* the symlink_entry of gen_metadata
SymlinkLine(st, d, target, prefix) ==
    JoinModeUidGid(st, FALSE) \o <<COMMA>> \o Encapsulate(d, prefix)
        \o <<COMMA>> \o Encapsulate(target, <<>>)

\* an element of dirs_list
DirLine(st, d, prefix) ==
    JoinModeUidGid(st, FALSE) \o <<COMMA>> \o Encapsulate(d, prefix)

\* A regular record with the trailing fields of tail (size, inode,
\* compress_alg; a field may be empty, a suffix of them may be left out)
RECURSIVE CommaFields(_)
CommaFields(tail) ==
    IF Len(tail) = 0 THEN <<>> ELSE <<COMMA>> \o tail[1] \o CommaFields(Tail(tail))

RegularRecord(st, hash, d, tail, prefix) ==
    JoinModeUidGid(st, TRUE) \o <<COMMA>> \o hash \o <<COMMA>>
        \o Encapsulate(d, prefix) \o CommaFields(tail)

\* an element of regular_list: gen_metadata writes size, inode and
\* compress_alg always; inode and alg are "" when there is none
RegularLine(st, hash, d, size, inode, alg, prefix) ==
    RegularRecord(st, hash, d, <<Str(size), inode, alg>>, prefix)

\* --prefix, default "/"
Prefix == <<SLASH>>

(***************************************************************************)
(* The filesystem that data_gen.py acts on through os and shutil.          *)
(*                                                                         *)
(* A filesystem is [dir, ino]: dir maps each existing absolute path, a     *)
(* sequence of components, to an inode number and ino is the inode table.  *)
(* An inode is [kind, mode, uid, gid, data]: data is the target string of  *)
(* a symlink and the content of a regular file.  Hard links are paths      *)
(* that map to one inode number.  A result is [err, fs], err "" or the     *)
(* name of the exception raised.                                           *)
(***************************************************************************)
\* the working directory of the process, /w
Cwd == << <<"w">> >>

\* The mode of a symlink is always 0777
SymlinkMode == 511

\* How many symlinks a path resolution follows before ELOOP
MaxHops == 2

DotDot == <<DOT, DOT>>

IsAbs(s) == Len(s) > 0 /\ s[1] = SLASH

Parent(p) == IF Len(p) = 0 THEN p ELSE SubSeq(p, 1, Len(p) - 1)

Bad(e, f) == [err |-> e, fs |-> f]
Good(f) == [err |-> "", fs |-> f]

Has(f, p) == p \in DOMAIN f.dir
Node(f, p) == f.ino[f.dir[p]]
KindAt(f, p) == IF Has(f, p) THEN Node(f, p).kind ELSE "none"

\* Path resolution of the kernel from directory cur over the components
\* todo: ".." goes to the parent, a symlink met on the way is followed, the
\* last component is followed only if follow.  The result names the place
\* of the last component, which need not exist.
RECURSIVE Walk(_, _, _, _, _)
Walk(f, cur, todo, follow, hops) ==
    IF Len(todo) = 0 THEN [err |-> "", path |-> cur]
    ELSE LET c == Head(todo)
             rest == Tail(todo)
             p == Append(cur, c)
         IN IF c = DotDot THEN Walk(f, Parent(cur), rest, follow, hops)
            ELSE IF ~Has(f, p)
                 THEN IF Len(rest) = 0 THEN [err |-> "", path |-> p]
                      ELSE [err |-> "FileNotFoundError", path |-> p]
            ELSE IF Node(f, p).kind = "symlink" /\ (Len(rest) > 0 \/ follow)
                 THEN IF hops = 0 THEN [err |-> "OSError", path |-> p]
                      ELSE Walk(f, IF IsAbs(Node(f, p).data) THEN <<>> ELSE cur,
                                PathParts(Node(f, p).data, <<>>) \o rest, follow, hops - 1)
            ELSE IF Len(rest) > 0 /\ Node(f, p).kind # "dir"
                 THEN [err |-> "NotADirectoryError", path |-> p]
            ELSE Walk(f, p, rest, follow, hops)

Resolve(f, s, follow) ==
    IF Len(s) = 0 THEN [err |-> "FileNotFoundError", path |-> <<>>]
    ELSE Walk(f, IF IsAbs(s) THEN <<>> ELSE Cwd, PathParts(s, <<>>), follow, MaxHops)

\* os.path.exists, os.path.isdir, os.path.islink
ExistsAt(f, r) == r.err = "" /\ Has(f, r.path)
Exists(f, s) == ExistsAt(f, Resolve(f, s, TRUE))

IsDirAt(f, r) == r.err = "" /\ KindAt(f, r.path) = "dir"
IsDir(f, s) == IsDirAt(f, Resolve(f, s, TRUE))

IsLinkAt(f, r) == r.err = "" /\ KindAt(f, r.path) = "symlink"
IsLink(f, s) == IsLinkAt(f, Resolve(f, s, FALSE))

\* A new inode at path p
Create(f, p, node) ==
    [dir |-> [q \in DOMAIN f.dir \cup {p} |->
                 IF q = p THEN Len(f.ino) + 1 ELSE f.dir[q]],
     ino |-> Append(f.ino, node)]

SetNode(f, p, node) == [f EXCEPT !.ino[f.dir[p]] = node]

\* mode & ~umask for the umask 022
Masked(mode) ==
    mode - (IF (mode \div 16) % 2 = 1 THEN 16 ELSE 0)
         - (IF (mode \div 2) % 2 = 1 THEN 2 ELSE 0)

DirNode(mode, uid, gid) ==
    [kind |-> "dir", mode |-> mode, uid |-> uid, gid |-> gid, data |-> <<>>]
FileNode(mode, uid, gid, data) ==
    [kind |-> "regular", mode |-> mode, uid |-> uid, gid |-> gid, data |-> data]
LinkNode(uid, gid, target) ==
    [kind |-> "symlink", mode |-> SymlinkMode, uid |-> uid, gid |-> gid, data |-> target]

\* os.mkdir(s, mode)
MkdirAt(f, r, mode) ==
    IF r.err # "" THEN Bad(r.err, f)
    ELSE IF Has(f, r.path) THEN Bad("FileExistsError", f)
    ELSE Good(Create(f, r.path, DirNode(Masked(mode), 0, 0)))

Mkdir(f, s, mode) == MkdirAt(f, Resolve(f, s, FALSE), mode)

\* os.path.split(s): (head, tail) around the last slash
LastSlash(s) == MaxOf({0} \cup {k \in 1..Len(s) : s[k] = SLASH})

RECURSIVE RStripSlash(_)
RStripSlash(s) ==
    IF Len(s) > 0 /\ s[Len(s)] = SLASH THEN RStripSlash(SubSeq(s, 1, Len(s) - 1)) ELSE s

\* head is stripped of its trailing slashes unless it is all slashes
HeadOf(h, stripped) == IF stripped = <<>> THEN h ELSE stripped
SplitHeadAt(s, k) == HeadOf(SubSeq(s, 1, k), RStripSlash(SubSeq(s, 1, k)))
SplitHead(s) == SplitHeadAt(s, LastSlash(s))

SplitTail(s) == Tail2(s, LastSlash(s) + 1)

\* os.makedirs(s, mode, exist_ok): the missing parents are made first, with
\* the default mode, then the leaf with os.mkdir
RECURSIVE Makedirs(_, _, _, _)
\* except OSError: if not exist_ok or not path.isdir(name): raise
MakedirsRaise(f, s, exist_ok, made) ==
    IF made.err # "" /\ exist_ok /\ IsDir(f, s) THEN Good(f) ELSE made

MakedirsLeaf(f, s, mode, exist_ok) ==
    MakedirsRaise(f, s, exist_ok, Mkdir(f, s, mode))

\* after makedirs(head): FileExistsError is passed over, xxx/newdir/. is
\* there once xxx/newdir is
MakedirsAfter(up, s, mode, exist_ok, tail) ==
    IF up.err \notin {"", "FileExistsError"} THEN up
    ELSE IF tail = <<DOT>> THEN Good(up.fs)
    ELSE MakedirsLeaf(up.fs, s, mode, exist_ok)

MakedirsSplit(f, s, mode, exist_ok, head, tail) ==
    IF head # <<>> /\ tail # <<>> /\ ~Exists(f, head)
    THEN MakedirsAfter(Makedirs(f, head, 511, exist_ok), s, mode, exist_ok, tail)
    ELSE MakedirsLeaf(f, s, mode, exist_ok)

\* head, tail = path.split(name)
MakedirsStem(f, s, mode, exist_ok, stem) ==
    MakedirsSplit(f, s, mode, exist_ok, SplitHead(stem), SplitTail(stem))

\* if not tail: head, tail = path.split(head)
Makedirs(f, s, mode, exist_ok) ==
    MakedirsStem(f, s, mode, exist_ok, IF SplitTail(s) = <<>> THEN SplitHead(s) ELSE s)

\* os.chown(s, uid, gid, follow_symlinks=follow)
ChownAt(f, r, uid, gid) ==
    IF r.err # "" THEN Bad(r.err, f)
    ELSE IF ~Has(f, r.path) THEN Bad("FileNotFoundError", f)
    ELSE Good(SetNode(f, r.path, [Node(f, r.path) EXCEPT !.uid = uid, !.gid = gid]))

Chown(f, s, uid, gid, follow) == ChownAt(f, Resolve(f, s, follow), uid, gid)

\* os.chmod(s, mode)
ChmodAt(f, r, mode) ==
    IF r.err # "" THEN Bad(r.err, f)
    ELSE IF ~Has(f, r.path) THEN Bad("FileNotFoundError", f)
    ELSE Good(SetNode(f, r.path, [Node(f, r.path) EXCEPT !.mode = mode]))

Chmod(f, s, mode) == ChmodAt(f, Resolve(f, s, TRUE), mode)

\* os.symlink(target, s)
SymlinkAt(f, target, r) ==
    IF r.err # "" THEN Bad(r.err, f)
    ELSE IF Has(f, r.path) THEN Bad("FileExistsError", f)
    ELSE Good(Create(f, r.path, LinkNode(0, 0, target)))

Symlink(f, target, s) == SymlinkAt(f, target, Resolve(f, s, FALSE))

\* open(s, "wb") and the write of data: the file is made, or truncated
WriteAt(f, r, data) ==
    IF r.err # "" THEN Bad(r.err, f)
    ELSE IF ~Has(f, r.path)
         THEN Good(Create(f, r.path, FileNode(Masked(438), 0, 0, data)))
    ELSE IF Node(f, r.path).kind = "dir" THEN Bad("IsADirectoryError", f)
    ELSE Good(SetNode(f, r.path, [Node(f, r.path) EXCEPT !.data = data]))

WriteFile(f, s, data) == WriteAt(f, Resolve(f, s, TRUE), data)

\* os.path.samefile as shutil._samefile uses it: False when a stat fails
SameFileAt(f, ra, rb) ==
    /\ ra.err = "" /\ rb.err = "" /\ Has(f, ra.path) /\ Has(f, rb.path)
    /\ f.dir[ra.path] = f.dir[rb.path]

SameFile(f, a, b) == SameFileAt(f, Resolve(f, a, TRUE), Resolve(f, b, TRUE))

\* shutil.copyfile(src, dst, follow_symlinks=False): rs is src resolved
\* through a last symlink, ls is src itself
CopyFileAt(f, rs, ls, dst, same) ==
    IF same THEN Bad("SameFileError", f)
    ELSE IF IsLinkAt(f, ls) THEN Symlink(f, Node(f, ls.path).data, dst)
    ELSE IF rs.err # "" THEN Bad(rs.err, f)
    ELSE IF ~Has(f, rs.path) THEN Bad("FileNotFoundError", f)
    ELSE IF Node(f, rs.path).kind = "dir" THEN Bad("IsADirectoryError", f)
    ELSE WriteFile(f, dst, Node(f, rs.path).data)

CopyFile(f, src, dst) ==
    CopyFileAt(f, Resolve(f, src, TRUE), Resolve(f, src, FALSE), dst,
               SameFile(f, src, dst))

\* os.link(src, dst, follow_symlinks=False)
LinkAt(f, rs, rd) ==
    IF rs.err # "" THEN Bad(rs.err, f)
    ELSE IF ~Has(f, rs.path) THEN Bad("FileNotFoundError", f)
    ELSE IF Node(f, rs.path).kind = "dir" THEN Bad("PermissionError", f)
    ELSE IF rd.err # "" THEN Bad(rd.err, f)
    ELSE IF Has(f, rd.path) THEN Bad("FileExistsError", f)
    ELSE Good([f EXCEPT !.dir = [q \in DOMAIN f.dir \cup {rd.path} |->
                 IF q = rd.path THEN f.dir[rs.path] ELSE f.dir[q]]])

Link(f, src, dst) == LinkAt(f, Resolve(f, src, FALSE), Resolve(f, dst, FALSE))

\* A listing that is always empty
ListdirAtNothing(f, r) == {}

\* os.listdir(s): the names in the directory
ListdirAt(f, r) ==
    IF r.err # "" \/ KindAt(f, r.path) # "dir" THEN {}
    ELSE {q \in DOMAIN f.dir : Len(q) = Len(r.path) + 1 /\ Parent(q) = r.path}

Listdir(f, s) == ListdirAt(f, Resolve(f, s, TRUE))

\* os.path.normpath(s)
RECURSIVE Collapse(_, _, _)
Collapse(parts, acc, abs) ==
    IF Len(parts) = 0 THEN acc
    ELSE IF Head(parts) # DotDot THEN Collapse(Tail(parts), Append(acc, Head(parts)), abs)
    ELSE IF Len(acc) > 0 /\ acc[Len(acc)] # DotDot
         THEN Collapse(Tail(parts), SubSeq(acc, 1, Len(acc) - 1), abs)
    ELSE IF abs THEN Collapse(Tail(parts), acc, abs)
    ELSE Collapse(Tail(parts), Append(acc, DotDot), abs)

NormJoin(root, ps) == IF root = <<>> /\ ps = <<>> THEN <<DOT>> ELSE root \o JoinParts(ps)

NormPath(s) ==
    NormJoin(PathRoot(s), Collapse(PathParts(s, <<>>), <<>>, PathRoot(s) # <<>>))

(***************************************************************************)
(* State                                                                   *)
(***************************************************************************)
VARIABLES
    entry,      \* codec: the filesystem entry a record is written for
    line,       \* codec: the record written for it
    inf,        \* codec: the *Inf object parsed from the record
    cpc,        \* codec: "entry", "line", "parsed"; "idle" when unused
    dst_dir,    \* gen_data: the argument dst_dir
    src_dir,    \* gen_data: the argument src_dir
    directory_file,  \* gen_data: the lines of the directory manifest
    symlink_file,    \* gen_data: the lines of the symlink manifest
    regular_file,    \* gen_data: the lines of the regular manifest
    fs,         \* the filesystem
    fs0,        \* the filesystem when gen_data was called
    pc,         \* gen_data: "start", "dirs", "symlinks", "regulars", "done", "failed"
    idx,        \* gen_data: the line of the manifest the loop is at
    links_dict, \* _gen_regulars: link key -> destination path
    err,        \* gen_data: the exception that ended it, "" if none
    log,        \* gen_data: the os and shutil calls that succeeded, in order
    boot_dir,   \* _list_non_latest_kernels: the argument boot_dir
    vmlinuz_latest,      \* the result of _get_latest_kernel_version
    non_latest_kernels,  \* the set _list_non_latest_kernels returns
    kpc,        \* _list_non_latest_kernels: "start", "latest", "collect", "done"
    target_dir, \* gen_metadata: the argument target_dir
    ignore,     \* gen_metadata: the rules of the ignore file
    metadata_dirs,       \* gen_metadata: the directories kept, relative
    metadata_symlinks,   \* gen_metadata: the symlinks kept, relative
    metadata_regulars,   \* gen_metadata: the regular files kept, relative
    paths_to_delete_abs, \* gen_metadata: the deletion candidates
    files_to_delete,     \* gen_metadata: the files still to delete, in order
    folders_to_delete,   \* gen_metadata: the folders still to delete, in order
    outcomes,            \* gen_metadata: the SUCCESS and FAILED lines printed
    mpc,        \* gen_metadata: "start", "kernels", "second", "delete", "done",
                \* "failed"; "idle" when unused
    compressed_dir,      \* the hashes that name the blobs of compressed_dir
    filesize_threshold,  \* gen_metadata: the argument filesize_threshold
    cmpr_ratio,          \* gen_metadata: the argument cmpr_ratio, a fraction
    regulars_final,      \* the regular files the loop has still to encode
    compress_algs,       \* the files encoded, each with its compress_alg
    zpc,        \* the loop over regulars_final: "loop", "done", "failed"; "idle"
                \* when unused
    call,       \* gen_payload: the arguments of the call and the files they name
    payload,    \* gen_payload: what it returned
    spc         \* gen_payload: "call", "done", "failed"; "idle" when unused

codecVars == <<entry, line, inf, cpc>>

dataVars == <<dst_dir, src_dir, directory_file, symlink_file, regular_file,
              fs, fs0, pc, idx, links_dict, err, log>>

kernelVars == <<boot_dir, vmlinuz_latest, non_latest_kernels, kpc>>

metaVars == <<target_dir, ignore, metadata_dirs, metadata_symlinks, metadata_regulars,
              paths_to_delete_abs, files_to_delete, folders_to_delete, outcomes, mpc>>

zstdVars == <<compressed_dir, filesize_threshold, cmpr_ratio, regulars_final,
              compress_algs, zpc>>

signVars == <<call, payload, spc>>

vars == <<codecVars, dataVars, kernelVars, metaVars, zstdVars, signVars>>

(***************************************************************************)
(* Writing one record and parsing it back                                  *)
(***************************************************************************)
MaxNameLen == 2

\* The characters of the names of the round-trip check: a letter, the
\* single quote, the comma and the space.
NameChars == {"a", Q, COMMA, " "}

Names == UNION {[1..k -> NameChars] : k \in 1..MaxNameLen}

\* lstat results: 0755 root, 0644 uid 1000 with two links, 04755
Stats ==
    { [mode |-> 493, uid |-> 0, gid |-> 0, nlink |-> 1],
      [mode |-> 420, uid |-> 1000, gid |-> 12, nlink |-> 2],
      [mode |-> 2541, uid |-> 0, gid |-> 1000, nlink |-> 1] }

SizeTexts == {<<>>, <<"7">>, <<"1", "0", "0">>}
InodeTexts == {<<>>, <<"5">>}
AlgTexts == {<<>>, <<"z", "s", "t">>}
HashText == <<"a", "b", "1", "2">>

\* The trailing fields a regular record may carry: any prefix of
\* size, inode, compress_alg, each possibly empty.
Tails ==
    {<<>>} \cup {<<s>> : s \in SizeTexts}
        \cup {<<s, i>> : s \in SizeTexts, i \in InodeTexts}
        \cup {<<s, i, a>> : s \in SizeTexts, i \in InodeTexts, a \in AlgTexts}

NoFields == [target |-> <<>>, tail |-> <<>>]

Entries ==
    {[kind |-> "dir", st |-> st, path |-> n, target |-> <<>>, tail |-> <<>>] :
        st \in Stats, n \in Names}
    \cup {[kind |-> "symlink", st |-> st, path |-> n, target |-> t, tail |-> <<>>] :
        st \in {CHOOSE x \in Stats : x.mode = 493}, n \in Names, t \in Names}
    \cup {[kind |-> "regular", st |-> st, path |-> n, target |-> <<>>, tail |-> tl] :
        st \in Stats, n \in Names, tl \in Tails}

CodecIdle == entry = NoFields /\ line = <<>> /\ inf = Failed("") /\ cpc = "idle"

CodecInit ==
    /\ entry \in Entries
    /\ line = <<>>
    /\ inf = Failed("")
    /\ cpc = "entry"

\* gen_metadata writes the record of one kept path
WriteRecord ==
    /\ cpc = "entry"
    /\ line' = CASE entry.kind = "dir" -> DirLine(entry.st, entry.path, Prefix)
                 [] entry.kind = "symlink" ->
                        SymlinkLine(entry.st, entry.path, entry.target, Prefix)
                 [] entry.kind = "regular" ->
                        RegularRecord(entry.st, HashText, entry.path, entry.tail, Prefix)
    /\ cpc' = "line"
    /\ UNCHANGED <<entry, inf>>

\* data_gen parses the record with the class of its manifest
ParseRecord ==
    /\ cpc = "line"
    /\ inf' = CASE entry.kind = "dir" -> DirectoryInf(line)
                [] entry.kind = "symlink" -> SymbolicLinkInf(line)
                [] entry.kind = "regular" -> RegularInf(line)
    /\ cpc' = "parsed"
    /\ UNCHANGED <<entry, line>>

CodecStep(A) == A /\ UNCHANGED <<dataVars, kernelVars, metaVars, zstdVars, signVars>>

CodecNext == CodecStep(WriteRecord) \/ CodecStep(ParseRecord)


(***************************************************************************)
(* data_gen.py: gen_data and its three loops                               *)
(***************************************************************************)
EmptyMap == [k \in {} |-> <<>>]

\* The phases with _gen_symlinks called before _gen_dirs
PhaseAfterSymlinksFirst(p) ==
    CASE p = "start" -> "symlinks"
      [] p = "symlinks" -> "dirs"
      [] p = "dirs" -> "regulars"
      [] p = "regulars" -> "done"

\* gen_data calls _gen_dirs, _gen_symlinks, _gen_regulars in this order
PhaseAfter(p) ==
    CASE p = "start" -> "dirs"
      [] p = "dirs" -> "symlinks"
      [] p = "symlinks" -> "regulars"
      [] p = "regulars" -> "done"

dst_dir_norm == NormPath(dst_dir)
src_dir_norm == NormPath(src_dir)

\* One call of os or shutil made for line idx of the manifest of phase pc:
\* op on path, with the arguments the operation takes (src is the target
\* of os.symlink and the source of copyfile and link)
Call(op, path, src, i, follow) ==
    [phase |-> pc, n |-> idx, op |-> op, path |-> path, src |-> src,
     mode |-> i.mode, uid |-> i.uid, gid |-> i.gid, follow |-> follow]

Exec(f, c) ==
    CASE c.op = "makedirs" -> Makedirs(f, c.path, c.mode, FALSE)
      [] c.op = "chown" -> Chown(f, c.path, c.uid, c.gid, c.follow)
      [] c.op = "chmod" -> Chmod(f, c.path, c.mode)
      [] c.op = "symlink" -> Symlink(f, c.src, c.path)
      [] c.op = "copyfile" -> CopyFile(f, c.src, c.path)
      [] c.op = "link" -> Link(f, c.src, c.path)

\* The calls of one iteration, in order, up to the first that raises:
\* [err, fs, done], done the number of calls that returned
RECURSIVE Perform(_, _, _)
PerformNext(r, calls, k) ==
    IF r.err # "" THEN [err |-> r.err, fs |-> r.fs, done |-> k - 1]
    ELSE Perform(r.fs, calls, k + 1)

Perform(f, calls, k) ==
    IF k > Len(calls) THEN [err |-> "", fs |-> f, done |-> Len(calls)]
    ELSE PerformNext(Exec(f, calls[k]), calls, k)

Raise(e) == pc' = "failed" /\ err' = e

\* The iteration made the calls with the result r: the loop goes on to the
\* next line, or gen_data ends with the exception
Finish(r, calls) ==
    /\ fs' = r.fs
    /\ log' = log \o SubSeq(calls, 1, r.done)
    /\ IF r.err # "" THEN Raise(r.err) /\ UNCHANGED idx
       ELSE idx' = idx + 1 /\ UNCHANGED <<pc, err>>

Iterate(calls) == Finish(Perform(fs, calls, 1), calls)

\* gen_data is not called; the filesystem is f
DataIdleOn(f) ==
    /\ dst_dir = <<>> /\ src_dir = <<>>
    /\ directory_file = <<>> /\ symlink_file = <<>> /\ regular_file = <<>>
    /\ fs = f /\ fs0 = f
    /\ pc = "idle" /\ idx = 0 /\ links_dict = EmptyMap /\ err = "" /\ log = <<>>

DataIdle == DataIdleOn([dir |-> EmptyMap, ino |-> <<>>])

\* os.makedirs(dst_dir_norm, exist_ok=True) returned made; os.listdir
GenDataListdir(made) ==
    /\ fs' = made.fs
    /\ IF made.err # "" THEN Raise(made.err) /\ UNCHANGED idx
       ELSE IF Listdir(made.fs, dst_dir_norm) # {}
       THEN Raise("ValueError: dst is not empty dir") /\ UNCHANGED idx
       ELSE pc' = PhaseAfter(pc) /\ idx' = 1 /\ UNCHANGED err

\* gen_data up to the first loop: the two preconditions
GenDataStart ==
    /\ pc = "start"
    /\ IF dst_dir_norm = src_dir_norm
       THEN Raise("ValueError: dst and src are same") /\ UNCHANGED <<fs, idx>>
       ELSE GenDataListdir(Makedirs(fs, dst_dir_norm, 511, TRUE))
    /\ UNCHANGED <<dst_dir, src_dir, directory_file, symlink_file, regular_file,
                   fs0, links_dict, log>>

\* f"{dst_dir}{inf.path}"
Under(dir, i) == dir \o i.path

DirCalls(i, target_path) ==
    <<Call("makedirs", target_path, <<>>, i, TRUE),
      Call("chown", target_path, <<>>, i, TRUE),
      Call("chmod", target_path, <<>>, i, TRUE)>>

GenDirOf(i) ==
    IF i.err # "" THEN Raise(i.err) /\ UNCHANGED <<fs, idx, log>>
    ELSE Iterate(DirCalls(i, Under(dst_dir_norm, i)))

\* one iteration of the loop of _gen_dirs
GenDir ==
    /\ pc = "dirs" /\ idx <= Len(directory_file)
    /\ GenDirOf(DirectoryInf(directory_file[idx]))
    /\ UNCHANGED <<dst_dir, src_dir, directory_file, symlink_file, regular_file,
                   fs0, links_dict>>

SymlinkCalls(i, target_path) ==
    <<Call("symlink", target_path, i.target, i, FALSE),
      Call("chown", target_path, <<>>, i, FALSE)>>

GenSymlinkOf(i) ==
    IF i.err # "" THEN Raise(i.err) /\ UNCHANGED <<fs, idx, log>>
    ELSE Iterate(SymlinkCalls(i, Under(dst_dir_norm, i)))

\* one iteration of the loop of _gen_symlinks
GenSymlink ==
    /\ pc = "symlinks" /\ idx <= Len(symlink_file)
    /\ GenSymlinkOf(SymbolicLinkInf(symlink_file[idx]))
    /\ UNCHANGED <<dst_dir, src_dir, directory_file, symlink_file, regular_file,
                   fs0, links_dict>>

\* links_key of _gen_regulars: the inode when the record has one, else the hash
LinksKey(i) == IF i.inode # <<>> THEN i.inode ELSE i.hash

\* links_dict after the copy of a record: setdefault only if nlink >= 2
RememberNothing(d, i, dst) == d

Remember(d, i, dst) ==
    IF i.nlink >= 2 /\ LinksKey(i) \notin DOMAIN d
    THEN [k \in DOMAIN d \cup {LinksKey(i)} |-> IF k = LinksKey(i) THEN dst ELSE d[k]]
    ELSE d

\* if links_key not in links_dict: copyfile, chown, chmod; else: os.link
RegularCalls(i, dst, key) ==
    IF key \notin DOMAIN links_dict
    THEN <<Call("copyfile", dst, Under(src_dir_norm, i), i, FALSE),
           Call("chown", dst, <<>>, i, TRUE),
           Call("chmod", dst, <<>>, i, TRUE)>>
    ELSE <<Call("link", dst, links_dict[key], i, FALSE)>>

\* links_dict is written after the three calls of a copy returned
GenRegularDone(i, dst, key) ==
    links_dict' = IF pc' # "failed" /\ key \notin DOMAIN links_dict
                  THEN Remember(links_dict, i, dst) ELSE links_dict

GenRegularOf(i) ==
    IF i.err # "" THEN Raise(i.err) /\ UNCHANGED <<fs, idx, log, links_dict>>
    ELSE /\ Iterate(RegularCalls(i, Under(dst_dir_norm, i), LinksKey(i)))
         /\ GenRegularDone(i, Under(dst_dir_norm, i), LinksKey(i))

\* one iteration of the loop of _gen_regulars
GenRegular ==
    /\ pc = "regulars" /\ idx <= Len(regular_file)
    /\ GenRegularOf(RegularInf(regular_file[idx]))
    /\ UNCHANGED <<dst_dir, src_dir, directory_file, symlink_file, regular_file, fs0>>

\* a loop has read its last line: the next function of gen_data is called
EndOfManifest ==
    /\ \/ pc = "dirs" /\ idx > Len(directory_file)
       \/ pc = "symlinks" /\ idx > Len(symlink_file)
       \/ pc = "regulars" /\ idx > Len(regular_file)
    /\ pc' = PhaseAfter(pc)
    /\ idx' = 1
    /\ UNCHANGED <<dst_dir, src_dir, directory_file, symlink_file, regular_file,
                   fs, fs0, links_dict, err, log>>

DataStep(A) == A /\ UNCHANGED <<codecVars, kernelVars, metaVars, zstdVars, signVars>>
DataNext ==
    \/ DataStep(GenDataStart)
    \/ DataStep(GenDir)
    \/ DataStep(GenSymlink)
    \/ DataStep(GenRegular)
    \/ DataStep(EndOfManifest)

(***************************************************************************)
(* metadata_gen.py: _get_latest_kernel_version and _list_non_latest_kernels *)
(*                                                                         *)
(* A path is a string, as str(Path) is; glob.glob lists a directory in no  *)
(* order that the program controls.  packaging.version orders the versions *)
(* M.m.p-b by their numbers, M first and b last.                           *)
(***************************************************************************)
STAR == "*"

\* fnmatch of the name s against the pattern pat, * for any characters
RECURSIVE GlobMatch(_, _)
GlobMatch(pat, s) ==
    IF Len(pat) = 0 THEN Len(s) = 0
    ELSE IF Head(pat) = STAR
         THEN GlobMatch(Tail(pat), s) \/ (Len(s) > 0 /\ GlobMatch(pat, Tail(s)))
    ELSE Len(s) > 0 /\ Head(s) = Head(pat) /\ GlobMatch(Tail(pat), Tail(s))

\* The name of an entry q of a listing
NameOf(q) == q[Len(q)]

\* glob.glob(str(dir / pat)): the paths dir/name of the names that match
Glob(f, dir, pat) ==
    {dir \o <<SLASH>> \o NameOf(q) : q \in {e \in Listdir(f, dir) : GlobMatch(pat, NameOf(e))}}

\* [f for f in glob.glob(...) if not Path(f).is_symlink()]
GlobFiles(f, dir, pat) == {s \in Glob(f, dir, pat) : ~IsLink(f, s)}

\* Path.is_file()
IsFileAtNever(f, r) == FALSE

IsFileAt(f, r) == r.err = "" /\ KindAt(f, r.path) = "regular"
IsFile(f, s) == IsFileAt(f, Resolve(f, s, TRUE))

VMLINUZ == <<"v", "m", "l", "i", "n", "u", "z">>
INITRD == <<"i", "n", "i", "t", "r", "d", ".", "i", "m", "g">>
SYSTEM_MAP == <<"S", "y", "s", "t", "e", "m", ".", "m", "a", "p">>
CONFIG == <<"c", "o", "n", "f", "i", "g">>
EXTLINUX_CONF == <<"e", "x", "t", "l", "i", "n", "u", "x", "/", "e", "x", "t", "l", "i", "n", "u", "x", ".", "c", "o", "n", "f">>
BOOT == <<"b", "o", "o", "t">>

\* Runs of digits from index pos of s with the separators seps between
\* them: the index of the last digit of each run, <<>> when s does not match
RECURSIVE DigitRuns(_, _, _, _)
DigitRunsStep(s, pos, seps, acc, n) ==
    IF n = 0 THEN <<>>
    ELSE IF Len(seps) = 0 THEN Append(acc, pos + n - 1)
    ELSE IF pos + n <= Len(s) /\ s[pos + n] = Head(seps)
         THEN DigitRuns(s, pos + n + 1, Tail(seps), Append(acc, pos + n - 1))
    ELSE <<>>

DigitRuns(s, pos, seps, acc) == DigitRunsStep(s, pos, seps, acc, RunLen(s, pos, Digits))

\* The groups of the match m of pa on name: version is the text of the
\* four numbers, key what version.parse orders it by
KernelGroups(name, m) ==
    IF m = <<>> THEN [ok |-> FALSE, version |-> <<>>, suffix |-> <<>>, key |-> <<>>]
    ELSE [ok |-> TRUE,
          version |-> SubSeq(name, Len(VMLINUZ) + 2, m[4]),
          suffix |-> Tail2(name, m[4] + 1),
          key |-> << IntOf(SubSeq(name, Len(VMLINUZ) + 2, m[1]), 10),
                     IntOf(SubSeq(name, m[1] + 2, m[2]), 10),
                     IntOf(SubSeq(name, m[2] + 2, m[3]), 10),
                     IntOf(SubSeq(name, m[3] + 2, m[4]), 10) >>]

\* pa.match(name), pa = vmlinuz-(?P<version>\d+\.\d+\.\d+-\d+)(?P<suffix>.*)
KernelMatch(name) ==
    IF StartsWith(name, VMLINUZ \o <<"-">>)
    THEN KernelGroups(name, DigitRuns(name, Len(VMLINUZ) + 2, <<DOT, DOT, "-">>, <<>>))
    ELSE KernelGroups(name, <<>>)

\* a < b for two version keys
RECURSIVE KeyLess(_, _)
KeyLess(a, b) ==
    /\ Len(a) > 0
    /\ \/ Head(a) < Head(b)
       \/ Head(a) = Head(b) /\ KeyLess(Tail(a), Tail(b))

\* compare(left, right) of _get_latest_kernel_version
Compare(left, right) ==
    IF ~KernelMatch(SplitTail(left)).ok \/ ~KernelMatch(SplitTail(right)).ok THEN 0
    ELSE IF KeyLess(KernelMatch(SplitTail(right)).key, KernelMatch(SplitTail(left)).key) THEN 1
    ELSE IF KeyLess(KernelMatch(SplitTail(left)).key, KernelMatch(SplitTail(right)).key) THEN -1
    ELSE 0

\* What sorted(kfile_glob, key=cmp_to_key(compare), reverse=True)[0] can be:
\* no file of the glob compares greater; of equal ones the sort keeps the
\* first in the order of the glob, which may be any of them
Latest(kfile_glob) == {k \in kfile_glob : \A j \in kfile_glob : Compare(j, k) <= 0}

\* kfiles_path = str(boot_dir / "vmlinuz-*.*.*-*-*")
KernelFiles(f, dir) ==
    GlobFiles(f, dir, VMLINUZ \o <<"-", STAR, DOT, STAR, DOT, STAR, "-", STAR, "-", STAR>>)

\* f"{prefix}-{ver}{suf}" in the directory of vmlinuz_latest
Companion(latest, kind, k) ==
    SplitHead(latest) \o <<SLASH>> \o kind \o <<"-">> \o k.version \o k.suffix

\* all_kernel_files, all_initrd_files, all_system_map_files, all_config_files
AllFiles(f, dir, kind) == GlobFiles(f, dir, kind \o <<"-", STAR>>)

\* The body of the try of _list_non_latest_kernels once the latest kernel
\* is known, k the match of its name: the empty set when its initrd is
\* not a file of the glob
NonLatestOf(f, dir, latest, k) ==
    IF ~k.ok \/ Companion(latest, INITRD, k) \notin AllFiles(f, dir, INITRD) THEN {}
    ELSE (AllFiles(f, dir, VMLINUZ) \cup AllFiles(f, dir, INITRD)
            \cup AllFiles(f, dir, SYSTEM_MAP) \cup AllFiles(f, dir, CONFIG))
         \ {latest, Companion(latest, INITRD, k), Companion(latest, SYSTEM_MAP, k),
            Companion(latest, CONFIG, k)}

KernelIdle ==
    boot_dir = <<>> /\ vmlinuz_latest = <<>> /\ non_latest_kernels = {} /\ kpc = "idle"

\* if (boot_dir / "extlinux" / "extlinux.conf").is_file(): return set()
CheckExtlinux ==
    /\ kpc = "start"
    /\ kpc' = IF IsFile(fs, boot_dir \o <<SLASH>> \o EXTLINUX_CONF) THEN "done" ELSE "latest"
    /\ UNCHANGED <<boot_dir, vmlinuz_latest, non_latest_kernels>>

\* _get_latest_kernel_version; its exception ends _list_non_latest_kernels
\* with the empty set
GetLatestKernelVersion ==
    /\ kpc = "latest"
    /\ IF KernelFiles(fs, boot_dir) = {}
       THEN kpc' = "done" /\ UNCHANGED vmlinuz_latest
       ELSE kpc' = "collect" /\ vmlinuz_latest' \in Latest(KernelFiles(fs, boot_dir))
    /\ UNCHANGED <<boot_dir, non_latest_kernels>>

\* the rest of _list_non_latest_kernels
CollectNonLatest ==
    /\ kpc = "collect"
    /\ non_latest_kernels' =
          NonLatestOf(fs, boot_dir, vmlinuz_latest, KernelMatch(SplitTail(vmlinuz_latest)))
    /\ kpc' = "done"
    /\ UNCHANGED <<boot_dir, vmlinuz_latest>>

KernelStep(A) == A /\ UNCHANGED <<codecVars, dataVars, metaVars, zstdVars, signVars>>

KernelNext ==
    \/ KernelStep(CheckExtlinux)
    \/ KernelStep(GetLatestKernelVersion)
    \/ KernelStep(CollectNonLatest)

(***************************************************************************)
(* metadata_gen.py: the order of paths and the patterns of gen_metadata    *)
(***************************************************************************)
\* The printable characters, but the double quote and the backquote, in the
\* order of their code points
Ascii ==
    <<" ", "!", "#", "$", "%", "&", "'", "(", ")", "*", "+", ",", "-", ".", "/",
       "0", "1", "2", "3", "4", "5", "6", "7", "8", "9", ":", ";", "<", "=", ">", "?", "@",
       "A", "B", "C", "D", "E", "F", "G", "H", "I", "J", "K", "L", "M",
       "N", "O", "P", "Q", "R", "S", "T", "U", "V", "W", "X", "Y", "Z",
       "[", BS, "]", "^", "_",
       "a", "b", "c", "d", "e", "f", "g", "h", "i", "j", "k", "l", "m",
       "n", "o", "p", "q", "r", "s", "t", "u", "v", "w", "x", "y", "z", "{", "|", "}", "~">>

Ord(c) == CHOOSE i \in 1..Len(Ascii) : Ascii[i] = c

\* s < t for two strings
RECURSIVE StrLess(_, _)
StrLess(s, t) ==
    /\ Len(t) > 0
    /\ \/ Len(s) = 0
       \/ Ord(Head(s)) < Ord(Head(t))
       \/ Head(s) = Head(t) /\ StrLess(Tail(s), Tail(t))

\* a < b for two Path objects: their parts compare as tuples of strings
RECURSIVE PartsLess(_, _)
PartsLess(a, b) ==
    /\ Len(b) > 0
    /\ \/ Len(a) = 0
       \/ StrLess(Head(a), Head(b))
       \/ Head(a) = Head(b) /\ PartsLess(Tail(a), Tail(b))

PathLess(s, t) == PartsLess(PathParts(s, <<>>), PathParts(t, <<>>))

\* sorted(list(paths)) of a set of Path objects
RECURSIVE SortedPaths(_)
SortedPathsFrom(S, least) == <<least>> \o SortedPaths(S \ {least})

SortedPaths(S) ==
    IF S = {} THEN <<>>
    ELSE SortedPathsFrom(S, CHOOSE s \in S : \A t \in S \ {s} : PathLess(s, t))

\* The paths in ascending order, a sort without reverse=True
Ascending(S) == SortedPaths(S)

\* sorted(paths, key=lambda x: str(x), reverse=True)
RECURSIVE SortedReverse(_)
SortedReverseFrom(S, greatest) == <<greatest>> \o SortedReverse(S \ {greatest})

SortedReverse(S) ==
    IF S = {} THEN <<>>
    ELSE SortedReverseFrom(S, CHOOSE s \in S : \A t \in S \ {s} : StrLess(t, s))

NonSlash == {Ascii[i] : i \in 1..Len(Ascii)} \ {SLASH}

HOME_AUTOWARE == <<"h", "o", "m", "e", "/", "a", "u", "t", "o", "w", "a", "r", "e", "/">>
BUILD == <<"b", "u", "i", "l", "d">>

\* t is in s at index i
At(s, i, t) == i >= 1 /\ i + Len(t) - 1 <= Len(s) /\ SubSeq(s, i, i + Len(t) - 1) = t

\* home/autoware/[^/]+/word matches s at index i
TriggerAt(s, i, word) ==
    /\ At(s, i, HOME_AUTOWARE)
    /\ RunLen(s, i + Len(HOME_AUTOWARE), NonSlash) >= 1
    /\ At(s, i + Len(HOME_AUTOWARE) + RunLen(s, i + Len(HOME_AUTOWARE), NonSlash),
          <<SLASH>> \o word)

\* any(pattern.search(s) for pattern in check_patterns)
CheckPatterns(s) ==
    \E i \in 1..Len(s) : TriggerAt(s, i, BUILD) \/ TriggerAt(s, i, <<"s", "r", "c">>)

\* The rest of a build_folder_pattern, from index j, after
\* home/autoware/[^/]*/build/ :  .*/hook/.*  or  .*/.*.egg-info/.*  or
\* .*/.*.so$
BuildRest(s, j) ==
    \/ \E a \in j..Len(s) : At(s, a, <<SLASH, "h", "o", "o", "k", SLASH>>)
    \/ \E a \in j..Len(s) :
          /\ s[a] = SLASH
          /\ \E e \in (a + 2)..Len(s) :
                At(s, e, <<"e", "g", "g", "-", "i", "n", "f", "o", SLASH>>)
    \/ \E a \in j..Len(s) :
          s[a] = SLASH /\ a + 1 <= Len(s) - 2 /\ At(s, Len(s) - 1, <<"s", "o">>)

\* home/autoware/[^/]*/build/ matches s at index i and the rest after it
BuildAt(s, i, n) ==
    /\ At(s, i, HOME_AUTOWARE)
    /\ At(s, i + Len(HOME_AUTOWARE) + n, <<SLASH>> \o BUILD \o <<SLASH>>)
    /\ BuildRest(s, i + Len(HOME_AUTOWARE) + n + Len(BUILD) + 2)

\* any(pattern.search(s) for pattern in build_folder_patterns)
BuildFolderPatterns(s) ==
    \E i \in 1..Len(s) : BuildAt(s, i, RunLen(s, i + Len(HOME_AUTOWARE), NonSlash))

(***************************************************************************)
(* metadata_gen.py: gen_metadata.  Paths are strings as the code has them: *)
(* f_abs is str(p / f_rel), and the sets hold the strings of the Paths.    *)
(***************************************************************************)
NL == "\n"

\* str(Path(dir) / rel)
AbsOf(dir, rel) == PathStr(PathJoin(dir, rel))

\* os.path.abspath(s)
AbsPath(s) == NormPath(IF IsAbs(s) THEN s ELSE PathJoin(<<SLASH>> \o JoinParts(Cwd), s))

\* q without its first n components, as a string
Relative(q, n) == JoinParts(SubSeq(q, n + 1, Len(q)))

\* p.glob("**/*"): everything below the directory, symlinked directories
\* not entered, relative to it
GlobAllUnder(f, r) ==
    IF ~IsDirAt(f, r) THEN {}
    ELSE {Relative(q, Len(r.path)) :
             q \in {e \in DOMAIN f.dir :
                       Len(e) > Len(r.path) /\ SubSeq(e, 1, Len(r.path)) = r.path}}

GlobAll(f, dir) == GlobAllUnder(f, Resolve(f, dir, TRUE))

\* ignore.match: a rule is a path relative to target_dir and matches that
\* path and all below it
Ignored(rules, rel) == \E r \in rules : rel = r \/ StartsWith(rel, r \o <<SLASH>>)

\* check_symlink_special_case
CheckSymlinkSpecialCase(rules) == \E r \in rules : CheckPatterns(r)

\* should_be_kept_despite_ignore without the build_folder_patterns
DirectoriesOnly(f, s, rel, special) == special /\ CheckPatterns(rel) /\ IsDir(f, s)

\* should_be_kept_despite_ignore
KeptDespiteIgnore(f, s, rel, special) ==
    /\ special
    /\ CheckPatterns(rel)
    /\ IsDir(f, s) \/ (IsFile(f, s) /\ BuildFolderPatterns(rel))

\* should_be_deleted with the ignore rules left out
OldKernelsOnly(f, s, rel, nlk, rules) == s \in nlk

\* should_be_deleted, of a path that is not a symlink
ShouldBeDeleted(f, s, rel, nlk, rules) ==
    \/ s \in nlk
    \/ /\ Ignored(rules, rel)
       /\ ~KeptDespiteIgnore(f, s, rel, CheckSymlinkSpecialCase(rules))

\* The paths of the first pass that are not skipped as broken symlinks and
\* are symlinks, and those that are not symlinks
LiveSymlinks(f, dir) ==
    {rel \in GlobAll(f, dir) : IsLink(f, AbsOf(dir, rel)) /\ Exists(f, AbsOf(dir, rel))}

NonSymlinks(f, dir) == {rel \in GlobAll(f, dir) : ~IsLink(f, AbsOf(dir, rel))}

Candidates(f, dir, nlk, rules) ==
    {rel \in NonSymlinks(f, dir) : ShouldBeDeleted(f, AbsOf(dir, rel), rel, nlk, rules)}

Kept(f, dir, nlk, rules) ==
    {rel \in NonSymlinks(f, dir) : ~ShouldBeDeleted(f, AbsOf(dir, rel), rel, nlk, rules)}

\* symlink_target_raw.lstrip(os.sep)
LStrip(s) == Tail2(s, RunLen(s, 1, {SLASH}) + 1)

\* os.readlink(s)
Readlink(f, s) == Node(f, Resolve(f, s, FALSE).path).data

\* str(path.resolve()); <<>> when the walk fails, and then nothing exists
\* at the path
ResolvedAt(r) == IF r.err = "" THEN <<SLASH>> \o JoinParts(r.path) ELSE <<>>

\* target_abs_path of the symlink at link with the target raw
TargetAbsPath(f, link, raw) ==
    IF IsAbs(raw) THEN PathStr(<<SLASH>> \o LStrip(raw))
    ELSE ResolvedAt(Resolve(f, PathJoin(SplitHead(link), raw), TRUE))

\* Path(s).parts
PartsOf(s) == (IF PathRoot(s) = <<>> THEN <<>> ELSE <<PathRoot(s)>>) \o PathParts(s, <<>>)

\* Path(s).is_relative_to(base)
IsRelativeTo(s, base) ==
    /\ Len(PartsOf(base)) <= Len(PartsOf(s))
    /\ SubSeq(PartsOf(s), 1, Len(PartsOf(base))) = PartsOf(base)

\* the current_partial_path of the first k parts
Partial(parts, k) == JoinParts(SubSeq(parts, 1, k))

\* The partial paths the loop over parts adds before it breaks at a symlink
Partials(f, dir, parts) ==
    {Partial(parts, k) :
        k \in {n \in 1..Len(parts) :
                  \A j \in 1..n : ~IsLink(f, AbsOf(dir, Partial(parts, j)))}}

\* What a symlink with target_abs_path t adds to
\* symlink_targets_for_metadata_and_protection; relative_to(target_dir)
\* raises when t is not below target_dir as it was given
ProtectedAt(f, dir, t) ==
    IF Exists(f, t) /\ IsRelativeTo(t, AbsPath(dir)) /\ IsRelativeTo(t, PathStr(dir))
    THEN Partials(f, dir, SubSeq(PartsOf(t), Len(PartsOf(PathStr(dir))) + 1, Len(PartsOf(t))))
    ELSE {}

ProtectedBy(f, dir, link) == ProtectedAt(f, dir, TargetAbsPath(f, link, Readlink(f, link)))

\* symlink_targets_for_metadata_and_protection after the second pass
Protected(f, dir, symlinks) ==
    UNION {ProtectedBy(f, dir, AbsOf(dir, rel)) : rel \in symlinks}

\* Path(s).unlink(missing_ok=True) in _delete_file; an exception is printed
UnlinkAt(f, r) ==
    IF r.err = "" /\ KindAt(f, r.path) \in {"regular", "symlink"}
    THEN [f EXCEPT !.dir = [q \in DOMAIN f.dir \ {r.path} |-> f.dir[q]]]
    ELSE f

Unlink(f, s) == UnlinkAt(f, Resolve(f, s, FALSE))

\* shutil.rmtree of a directory
RmtreeAt(f, r) ==
    [f EXCEPT !.dir = [q \in {e \in DOMAIN f.dir :
                                 ~(Len(e) >= Len(r.path) /\ SubSeq(e, 1, Len(r.path)) = r.path)}
                          |-> f.dir[q]]]

\* _delete_folder: if folder_path.exists() and folder_path.is_dir()
DeleteFolderAt(f, s, r) == IF IsDirAt(f, r) /\ ~IsLink(f, s) THEN RmtreeAt(f, r) ELSE f

DeleteFolderOf(f, s) == DeleteFolderAt(f, s, Resolve(f, s, TRUE))

\* st_nlink
NLink(f, p) == Cardinality({q \in DOMAIN f.dir : f.dir[q] = f.dir[p]})

\* os.lstat
LStat(f, p) ==
    [mode |-> Node(f, p).mode, uid |-> Node(f, p).uid, gid |-> Node(f, p).gid,
     nlink |-> NLink(f, p)]

\* _file_sha256: a digest of word characters, one for each content
Sha256(data) == <<"h">> \o data

\* symlink_entry of the symlink d at p
SymlinkEntryAt(f, d, p) == SymlinkLine(LStat(f, p), d, Node(f, p).data, Prefix)

SymlinkEntry(f, dir, d) == SymlinkEntryAt(f, d, Resolve(f, PathJoin(dir, d), FALSE).path)

\* the line of dirs_list of the directory d at p
DirEntryAt(f, d, p) == DirLine(LStat(f, p), d, Prefix)

DirEntry(f, dir, d) == DirEntryAt(f, d, Resolve(f, PathJoin(dir, d), FALSE).path)

\* the line of regular_list of the file d at p
RegularEntryAt(f, d, p) ==
    RegularLine(LStat(f, p), Sha256(Node(f, p).data), d, Len(Node(f, p).data),
                IF NLink(f, p) > 1 THEN Str(f.dir[p]) ELSE <<>>, <<>>, Prefix)

RegularEntry(f, dir, d) == RegularEntryAt(f, d, Resolve(f, PathJoin(dir, d), FALSE).path)

\* "\n".join(lines), as writelines writes it
RECURSIVE JoinLines(_)
JoinLines(lines) ==
    IF Len(lines) = 0 THEN <<>>
    ELSE IF Len(lines) = 1 THEN lines[1]
    ELSE lines[1] \o <<NL>> \o JoinLines(Tail(lines))

\* f.read().splitlines(), as gen_data reads it: the text between the line
\* breaks at the indexes in breaks, without an empty line at the end
LineBreaks(s) == {i \in 1..Len(s) : s[i] = NL}

\* the index of the k-th line break; 0 before the first and Len(s) + 1 after
\* the last
BreakAt(s, breaks, k) ==
    IF k = 0 THEN 0
    ELSE IF k > Cardinality(breaks) THEN Len(s) + 1
    ELSE CHOOSE i \in breaks : Cardinality({j \in breaks : j <= i}) = k

SplitLinesAt(s, breaks) ==
    [k \in 1..(Cardinality(breaks) + (IF s[Len(s)] = NL THEN 0 ELSE 1)) |->
        SubSeq(s, BreakAt(s, breaks, k - 1) + 1, BreakAt(s, breaks, k) - 1)]

SplitLines(s) == IF Len(s) = 0 THEN <<>> ELSE SplitLinesAt(s, LineBreaks(s))

\* os.lstat, os.readlink or stat of a path of the lists raises
Unreadable(f, dir, ds) == \E d \in ds : ~ExistsAt(f, Resolve(f, PathJoin(dir, d), FALSE))

MetaIdle ==
    /\ target_dir = <<>> /\ ignore = {}
    /\ metadata_dirs = {} /\ metadata_symlinks = {} /\ metadata_regulars = {}
    /\ paths_to_delete_abs = {} /\ files_to_delete = <<>> /\ folders_to_delete = <<>>
    /\ outcomes = <<>>
    /\ mpc = "idle"

\* gen_metadata up to the call _list_non_latest_kernels(p / "boot")
ListNonLatestKernels ==
    /\ mpc = "start"
    /\ mpc' = "kernels"
    /\ boot_dir' = AbsOf(target_dir, BOOT)
    /\ kpc' = "start"
    /\ vmlinuz_latest' = <<>> /\ non_latest_kernels' = {}
    /\ UNCHANGED <<target_dir, ignore, metadata_dirs, metadata_symlinks, metadata_regulars,
                   paths_to_delete_abs, files_to_delete, folders_to_delete, outcomes,
                   dataVars>>

\* the first pass over p.glob("**/*")
FirstPass ==
    /\ mpc = "kernels" /\ kpc = "done"
    /\ metadata_symlinks' = LiveSymlinks(fs, target_dir)
    /\ paths_to_delete_abs' =
          {AbsOf(target_dir, rel) : rel \in Candidates(fs, target_dir, non_latest_kernels, ignore)}
    /\ metadata_dirs' =
          {rel \in Kept(fs, target_dir, non_latest_kernels, ignore) :
              IsDir(fs, AbsOf(target_dir, rel))}
    /\ metadata_regulars' =
          {rel \in Kept(fs, target_dir, non_latest_kernels, ignore) :
              IsFile(fs, AbsOf(target_dir, rel))}
    /\ mpc' = "second"
    /\ UNCHANGED <<target_dir, ignore, files_to_delete, folders_to_delete, outcomes,
                   dataVars, kernelVars>>

\* the second pass, the merge of the protected paths and the sorted lists
\* of what is deleted
SecondPassOf(protected, remaining) ==
    /\ metadata_dirs' =
          metadata_dirs \cup {rel \in protected : IsDir(fs, AbsOf(target_dir, rel))}
    /\ metadata_regulars' =
          metadata_regulars \cup {rel \in protected : IsFile(fs, AbsOf(target_dir, rel))}
    /\ paths_to_delete_abs' = remaining
    /\ files_to_delete' = SortedReverse({x \in remaining : IsFile(fs, x)})
    /\ folders_to_delete' = SortedReverse({x \in remaining : IsDir(fs, x)})

SecondPassWith(protected) ==
    SecondPassOf(protected,
                 paths_to_delete_abs \ {AbsOf(target_dir, rel) : rel \in protected})

SecondPass ==
    /\ mpc = "second"
    /\ SecondPassWith(Protected(fs, target_dir, metadata_symlinks))
    /\ mpc' = "delete"
    /\ UNCHANGED <<target_dir, ignore, metadata_symlinks, outcomes, dataVars, kernelVars>>

\* A line of the report of the deletions
Outcome(path, success) == [path |-> path, success |-> success]

\* _delete_folder returns True only when it called shutil.rmtree
IsFolder(f, s) == IsDirAt(f, Resolve(f, s, TRUE)) /\ ~IsLink(f, s)

\* A loop that a failed deletion ends
Interrupted(list, success) == IF success THEN Tail(list) ELSE <<>>

\* What is left of the list a deletion loop iterates over: the loop goes on
\* whatever _delete_file or _delete_folder returned
Remaining(list, success) == Tail(list)

\* one iteration of the loop over files_to_delete: the tree and what
\* _delete_file returned
DeleteFileTo(tree, success) ==
    /\ mpc = "delete" /\ files_to_delete # <<>>
    /\ fs' = tree
    /\ outcomes' = Append(outcomes, Outcome(Head(files_to_delete), success))
    /\ files_to_delete' = Remaining(files_to_delete, success)
    /\ UNCHANGED <<target_dir, ignore, metadata_dirs, metadata_symlinks, metadata_regulars,
                   paths_to_delete_abs, folders_to_delete, mpc, kernelVars,
                   dst_dir, src_dir, directory_file, symlink_file, regular_file,
                   fs0, pc, idx, links_dict, err, log>>

DeleteFile == DeleteFileTo(Unlink(fs, Head(files_to_delete)), TRUE)

\* unlink raises (permission denied or any other error): _delete_file
\* prints the error and returns False
DeleteFileFails == DeleteFileTo(fs, FALSE)

\* one iteration of the loop over folders_to_delete: the tree and what
\* _delete_folder returned
DeleteFolderTo(tree, success) ==
    /\ mpc = "delete" /\ files_to_delete = <<>> /\ folders_to_delete # <<>>
    /\ fs' = tree
    /\ outcomes' = Append(outcomes, Outcome(Head(folders_to_delete), success))
    /\ folders_to_delete' = Remaining(folders_to_delete, success)
    /\ UNCHANGED <<target_dir, ignore, metadata_dirs, metadata_symlinks, metadata_regulars,
                   paths_to_delete_abs, files_to_delete, mpc, kernelVars,
                   dst_dir, src_dir, directory_file, symlink_file, regular_file,
                   fs0, pc, idx, links_dict, err, log>>

DeleteFolder ==
    DeleteFolderTo(DeleteFolderOf(fs, Head(folders_to_delete)),
                   IsFolder(fs, Head(folders_to_delete)))

\* shutil.rmtree raises before it removed anything: _delete_folder prints
\* the error and returns False
DeleteFolderFails ==
    /\ folders_to_delete # <<>> /\ IsFolder(fs, Head(folders_to_delete))
    /\ DeleteFolderTo(fs, FALSE)

\* symlink_list, dirs_list and regular_list of the sorted lists ds
symlink_list(f, dir, ds) == [k \in 1..Len(ds) |-> SymlinkEntry(f, dir, ds[k])]

dirs_list(f, dir, ds) == [k \in 1..Len(ds) |-> DirEntry(f, dir, ds[k])]

regular_list(f, dir, ds) == [k \in 1..Len(ds) |-> RegularEntry(f, dir, ds[k])]

\* The lines gen_data reads from the manifest written from the list lines
Manifest(lines) == SplitLines(JoinLines(lines))

\* the three manifests are written; gen_data is then called with them, with
\* target_dir for its src_dir
WriteMetadata ==
    /\ mpc = "delete" /\ files_to_delete = <<>> /\ folders_to_delete = <<>>
    /\ IF Unreadable(fs, target_dir,
                     metadata_symlinks \cup metadata_dirs \cup metadata_regulars)
       THEN /\ mpc' = "failed"
            /\ UNCHANGED <<directory_file, symlink_file, regular_file, pc>>
       ELSE /\ mpc' = "done"
            /\ symlink_file' =
                  Manifest(symlink_list(fs, target_dir, SortedPaths(metadata_symlinks)))
            /\ directory_file' =
                  Manifest(dirs_list(fs, target_dir, SortedPaths(metadata_dirs)))
            /\ regular_file' =
                  Manifest(regular_list(fs, target_dir, SortedPaths(metadata_regulars)))
            /\ pc' = "start"
    /\ UNCHANGED <<target_dir, ignore, metadata_dirs, metadata_symlinks, metadata_regulars,
                   paths_to_delete_abs, files_to_delete, folders_to_delete, outcomes,
                   kernelVars, dst_dir, src_dir, fs, fs0, idx, links_dict, err, log>>

MetaStep(A) == A /\ UNCHANGED <<codecVars, zstdVars, signVars>>

MetaNext ==
    \/ MetaStep(ListNonLatestKernels)
    \/ MetaStep(FirstPass)
    \/ MetaStep(SecondPass)
    \/ MetaStep(DeleteFile)
    \/ MetaStep(DeleteFolder)
    \/ MetaStep(WriteMetadata)

\* the deletions that fail
FaultNext == MetaStep(DeleteFileFails) \/ MetaStep(DeleteFolderFails)

(***************************************************************************)
(* metadata_gen.py: the compression of the regular files.  A file is its   *)
(* size and the size zstd compresses its content to; its sha256 names its  *)
(* blob, one name for each content.  cmpr_ratio is the fraction num / den. *)
(***************************************************************************)
ZSTD_COMPRESSION_EXTENSION == <<"z", "s", "t">>

File(size, compressed) == [size |-> size, compressed |-> compressed]

\* src_size / compressed_bytes < cmpr_ratio
RatioBelow(src_size, compressed_bytes, ratio) ==
    src_size * ratio.den < ratio.num * compressed_bytes

\* zstd_compress_file(cctx, src_fpath, dst_fpath, ...) on the blobs of
\* compressed_dir: what it returns and the blobs it leaves
zstd_compress_file(file, blobs, ratio, threshold) ==
    IF file.size < threshold THEN [ok |-> FALSE, blobs |-> blobs]
    ELSE IF file.compressed = 0 \/ RatioBelow(file.size, file.compressed, ratio)
         THEN [ok |-> FALSE, blobs |-> blobs \ {file}]
    ELSE [ok |-> TRUE, blobs |-> blobs \cup {file}]

\* if os.path.exists(dst_f) or zstd_compress_file(...): compress_alg = "zst"
CompressAlg(file, blobs, done) ==
    IF file \in blobs \/ done.ok THEN ZSTD_COMPRESSION_EXTENSION ELSE <<>>

BlobsAfter(file, blobs, done) == IF file \in blobs THEN blobs ELSE done.blobs

Encoded(file, alg) == [file |-> file, compress_alg |-> alg]

ZstdIdle ==
    /\ compressed_dir = {} /\ filesize_threshold = 0 /\ cmpr_ratio = [num |-> 1, den |-> 1]
    /\ regulars_final = <<>> /\ compress_algs = <<>> /\ zpc = "idle"

\* one iteration of the loop over regulars_final with compressed_dir set
CompressWith(file, done) ==
    /\ compress_algs' = Append(compress_algs, Encoded(file, CompressAlg(file, compressed_dir, done)))
    /\ compressed_dir' = BlobsAfter(file, compressed_dir, done)

CompressRegular ==
    /\ zpc = "loop" /\ regulars_final # <<>>
    /\ CompressWith(Head(regulars_final),
                    zstd_compress_file(Head(regulars_final), compressed_dir,
                                       cmpr_ratio, filesize_threshold))
    /\ regulars_final' = Tail(regulars_final)
    /\ UNCHANGED <<filesize_threshold, cmpr_ratio, zpc>>

\* zstd_compress_file raises (getsize, open, read, the compressor or a
\* write fails): nothing catches it in the loop and gen_metadata ends with
\* the exception; the blob is there or not, as far as it was written
CompressRaises ==
    /\ zpc = "loop" /\ regulars_final # <<>>
    /\ Head(regulars_final) \notin compressed_dir
    /\ zpc' = "failed"
    /\ compressed_dir' \in {compressed_dir, compressed_dir \cup {Head(regulars_final)}}
    /\ UNCHANGED <<filesize_threshold, cmpr_ratio, regulars_final, compress_algs>>

\* the end of the loop: regular_list is written
EndOfRegulars ==
    /\ zpc = "loop" /\ regulars_final = <<>>
    /\ zpc' = "done"
    /\ UNCHANGED <<compressed_dir, filesize_threshold, cmpr_ratio, regulars_final,
                   compress_algs>>

ZstdStep(A) == A /\ UNCHANGED <<codecVars, dataVars, kernelVars, metaVars, signVars>>

ZstdNext == ZstdStep(CompressRegular) \/ ZstdStep(CompressRaises) \/ ZstdStep(EndOfRegulars)

(***************************************************************************)
(* metadata_sign.py: gen_payload.  An argument that names a file is a      *)
(* record of its name and its content; the payload is the list that        *)
(* json.dumps and urlsafe_b64encode are given, an entry a sequence of      *)
(* key and value pairs in the order they are written.                      *)
(***************************************************************************)
Named(name, data) == [name |-> name, data |-> data]

\* {key: basename(file), "hash": _file_sha256(file)}
Hashed(key, file) == <<<<key, SplitTail(file.name)>>, <<"hash", Sha256(file.data)>>>>

\* the list payload of gen_payload before the total size is looked at
Required(c) ==
    << <<<<"version", 1>>>>,
       Hashed("directory", c.directory_file),
       Hashed("symboliclink", c.symlink_file),
       Hashed("regular", c.regular_file),
       Hashed("persistent", c.persistent_file),
       <<<<"rootfs_directory", c.rootfs_directory>>>>,
       Hashed("certificate", c.certificate_file) >>

\* if isfile(total_regular_size_file): payload.append(...)
WithTotal(c, list) ==
    IF c.total_regular_size_file.isfile
    THEN Append(list, <<<<"total_regular_size", c.total_regular_size_file.data>>>>)
    ELSE list

\* urlsafe_b64encode(json.dumps(payload))
Urlsafe(list) == [b64 |-> [json |-> list]]

SignIdle == call = <<>> /\ payload = <<>> /\ spc = "idle"

\* gen_payload called with its seven parameters
GenPayload ==
    /\ spc = "call" /\ ~call.has_compressed
    /\ payload' = Urlsafe(WithTotal(call, Required(call)))
    /\ spc' = "done"
    /\ UNCHANGED call

\* gen_payload called with the keyword compressed_rootfs_directory, which
\* the function does not have: TypeError
GenPayloadTypeError ==
    /\ spc = "call" /\ call.has_compressed
    /\ spc' = "failed"
    /\ UNCHANGED <<call, payload>>

SignStep(A) == A /\ UNCHANGED <<codecVars, dataVars, kernelVars, metaVars, zstdVars>>

SignNext == SignStep(GenPayload) \/ SignStep(GenPayloadTypeError)

(***************************************************************************)
(* The runs of gen_data that are checked: a content source /w/src, a       *)
(* destination /w/dst that does not exist yet, and manifests made of the   *)
(* records below, MaxRecords lines in all.                                 *)
(***************************************************************************)
MaxRecords == 4

\* The filesystem with the nodes of es, a sequence of <<path, node>>, added
RECURSIVE WithNodes(_, _)
WithNodes(f, es) ==
    IF Len(es) = 0 THEN f ELSE WithNodes(Create(f, es[1][1], es[1][2]), Tail(es))

W == <<"w">>
SRC == <<"s", "r", "c">>
DST == <<"d", "s", "t">>

\* / and /w
RootFS ==
    WithNodes([dir |-> EmptyMap, ino |-> <<>>],
              << <<<<>>, DirNode(Masked(511), 0, 0)>>, <<<<W>>, DirNode(Masked(511), 0, 0)>> >>)

\* /w/src with the files f, g, k and a/h
SourceFS ==
    WithNodes(RootFS,
              << <<<<W, SRC>>, DirNode(Masked(511), 0, 0)>>,
                 <<<<W, SRC, <<"a">>>>, DirNode(Masked(511), 0, 0)>>,
                 <<<<W, SRC, <<"f">>>>, FileNode(420, 1000, 1000, <<"F">>)>>,
                 <<<<W, SRC, <<"g">>>>, FileNode(420, 1000, 1000, <<"G">>)>>,
                 <<<<W, SRC, <<"k">>>>, FileNode(384, 0, 0, <<"K">>)>>,
                 <<<<W, SRC, <<"a">>, <<"h">>>>, FileNode(420, 0, 0, <<"H">>)>> >>)

SrcArg == <<SLASH, "w", SLASH, "s", "r", "c">>
DstArg == <<SLASH, "w", SLASH, "d", "s", "t">>

St(mode, uid, gid, nlink) == [mode |-> mode, uid |-> uid, gid |-> gid, nlink |-> nlink]

\* Directory records: /a, /a/b and /c/d, whose parent /c has no record, and
\* ./e, a path without a leading slash as in sample_dirs_file
DirCatalog ==
    { DirLine(St(493, 0, 0, 2), <<"a">>, Prefix),
      DirLine(St(448, 1000, 1000, 2), <<"a", SLASH, "b">>, Prefix),
      DirLine(St(493, 0, 0, 2), <<"c", SLASH, "d">>, Prefix),
      DirLine(St(493, 1000, 1000, 2), <<DOT, SLASH, "e">>, <<>>) }

\* Symlink records: /l -> a and /a/m -> /x
SymCatalog ==
    { SymlinkLine(St(511, 0, 0, 1), <<"l">>, <<"a">>, Prefix),
      SymlinkLine(St(511, 1000, 1000, 1), <<"a", SLASH, "m">>, <<SLASH, "x">>, Prefix) }

H1 == <<"a", "b", "1">>

\* Regular records: /f and /g of inode 5 with two links; /a/h and /g with
\* two links and no inode, keyed by their hash; /k with one link and the
\* same hash
RegCatalog ==
    { RegularLine(St(420, 1000, 1000, 2), H1, <<"f">>, 1, <<"5">>, <<>>, Prefix),
      RegularLine(St(420, 1000, 1000, 2), H1, <<"g">>, 1, <<"5">>, <<>>, Prefix),
      RegularLine(St(420, 0, 0, 2), H1, <<"a", SLASH, "h">>, 1, <<>>, <<>>, Prefix),
      RegularLine(St(420, 0, 0, 2), H1, <<"g">>, 1, <<>>, <<>>, Prefix),
      RegularLine(St(384, 0, 0, 1), H1, <<"k">>, 1, <<>>, <<>>, Prefix) }

DataStart(f) ==
    /\ fs = f /\ fs0 = f
    /\ pc = "start" /\ idx = 0 /\ links_dict = EmptyMap /\ err = "" /\ log = <<>>

DataInit ==
    /\ dst_dir = DstArg /\ src_dir = SrcArg
    /\ \E nd \in 0..MaxRecords, ns \in 0..MaxRecords, nr \in 0..MaxRecords :
          /\ nd + ns + nr <= MaxRecords
          /\ directory_file \in [1..nd -> DirCatalog]
          /\ symlink_file \in [1..ns -> SymCatalog]
          /\ regular_file \in [1..nr -> RegCatalog]
    /\ DataStart(SourceFS)

(***************************************************************************)
(* The calls of gen_data that are checked for its preconditions: dst_dir   *)
(* and src_dir in several spellings, some of one place, and a destination  *)
(* that is absent, empty, not empty or not a directory.                    *)
(***************************************************************************)
Chars(ps) == JoinParts(ps)

\* /w/src as an empty directory
EmptySourceFS == WithNodes(RootFS, << <<<<W, SRC>>, DirNode(Masked(511), 0, 0)>> >>)

ALIAS == <<"l", "n">>
X == <<"x">>

\* What is in /w besides src when gen_data is called
Before0 ==
    { <<>>,
      << <<<<W, DST>>, DirNode(Masked(511), 0, 0)>> >>,
      << <<<<W, DST>>, DirNode(Masked(511), 0, 0)>>,
         <<<<W, DST, X>>, FileNode(Masked(438), 0, 0, <<"X">>)>> >>,
      << <<<<W, DST>>, DirNode(Masked(511), 0, 0)>>,
         <<<<W, DST, <<"a">>>>, DirNode(448, 1000, 1000)>> >>,
      << <<<<W, DST>>, FileNode(Masked(438), 0, 0, <<"X">>)>> >>,
      << <<<<W, ALIAS>>, LinkNode(0, 0, SRC)>> >>,
      << <<<<W, DST>>, DirNode(Masked(511), 0, 0)>>,
         <<<<W, DST, X>>, LinkNode(0, 0, <<SLASH>> \o Chars(<<W, SRC>>))>>,
         <<<<W, ALIAS>>, LinkNode(0, 0, DST)>> >> }

DstArgs ==
    { DstArg, DstArg \o <<SLASH>>, DST, <<DOT, SLASH>> \o DST,
      <<SLASH>> \o Chars(<<W, X, DotDot, DST>>),
      SrcArg, SRC, SrcArg \o <<SLASH, DOT>>, <<SLASH>> \o Chars(<<W, ALIAS>>) }

SrcArgs == { SrcArg, SrcArg \o <<SLASH>>, SRC }

\* One record in each manifest: the directory /a, the symlink /l, the file /f
PreInit ==
    /\ dst_dir \in DstArgs /\ src_dir \in SrcArgs
    /\ directory_file = << DirLine(St(448, 1000, 1000, 2), <<"a">>, Prefix) >>
    /\ symlink_file = << SymlinkLine(St(511, 0, 0, 1), <<"l">>, <<"a">>, Prefix) >>
    /\ regular_file =
          << RegularLine(St(420, 1000, 1000, 1), H1, <<"f">>, 1, <<>>, <<>>, Prefix) >>
    /\ \E base \in {SourceFS, EmptySourceFS}, more \in Before0 :
          DataStart(WithNodes(base, more))

(***************************************************************************)
(* The manifests with lines that are not records: a bad prefix, a mode     *)
(* that is not octal, an owner that is not a number, a quoted field that   *)
(* is not closed.                                                          *)
(***************************************************************************)
GoodDirLine == DirLine(St(493, 0, 0, 2), <<"a">>, Prefix)
GoodSymLine == SymlinkLine(St(511, 0, 0, 1), <<"l">>, <<"a">>, Prefix)
GoodRegLine == RegularLine(St(420, 1000, 1000, 1), H1, <<"f">>, 1, <<>>, <<>>, Prefix)

\* s without its last character
Chop(s) == SubSeq(s, 1, Len(s) - 1)

\* 0700,0,0,'/bc without its closing quote; 0789 for the mode; x for the
\* uid; the gid left out
MalformedDirLines ==
    { Chop(DirLine(St(448, 0, 0, 2), <<"b", "c">>, Prefix)),
      <<"0", "7", "8", "9">> \o Tail2(GoodDirLine, 5),
      <<"0", "7", "5", "5", COMMA, "x">> \o Tail2(GoodDirLine, 7),
      Tail2(GoodDirLine, 6) }

MalformedSymLines ==
    { Chop(GoodSymLine), <<"0", "7", "8", "9">> \o Tail2(GoodSymLine, 5) }

MalformedRegLines ==
    { SubSeq(GoodRegLine, 1, Len(GoodRegLine) - 5),
      <<"x">> \o Tail2(GoodRegLine, 2) }

MalformedLines == MalformedDirLines \cup MalformedSymLines \cup MalformedRegLines

BadInit ==
    /\ dst_dir = DstArg /\ src_dir = SrcArg
    /\ \E nd \in 0..MaxRecords, ns \in 0..MaxRecords, nr \in 0..MaxRecords :
          /\ nd + ns + nr <= MaxRecords
          /\ directory_file \in [1..nd -> {GoodDirLine} \cup MalformedDirLines]
          /\ symlink_file \in [1..ns -> {GoodSymLine} \cup MalformedSymLines]
          /\ regular_file \in [1..nr -> {GoodRegLine} \cup MalformedRegLines]
    /\ DataStart(SourceFS)

(***************************************************************************)
(* The boot directories that _list_non_latest_kernels is checked on: /boot *)
(* with at most MaxBootFiles of the artifacts below, with or without       *)
(* extlinux/extlinux.conf.                                                 *)
(***************************************************************************)
MaxBootFiles == 4

GENERIC == <<"-", "g", "e", "n", "e", "r", "i", "c">>

\* An artifact of a kernel: kind-M.m.p-b and the suffix; link if the entry
\* is a symlink
Artifact(kind, ver, suf, link) == [kind |-> kind, ver |-> ver, suf |-> suf, link |-> link]

V64 == <<5, 15, 0, 64>>
V27 == <<5, 15, 0, 27>>
V102 == <<5, 4, 0, 102>>

VersionText(ver) ==
    Str(ver[1]) \o <<DOT>> \o Str(ver[2]) \o <<DOT>> \o Str(ver[3]) \o <<"-">> \o Str(ver[4])

ArtifactName(a) == a.kind \o <<"-">> \o VersionText(a.ver) \o a.suf

ArtifactPool ==
    { Artifact(VMLINUZ, V64, GENERIC, FALSE), Artifact(VMLINUZ, V64, <<>>, FALSE),
      Artifact(VMLINUZ, V27, GENERIC, FALSE), Artifact(VMLINUZ, V102, GENERIC, FALSE),
      Artifact(VMLINUZ, V102, GENERIC, TRUE),
      Artifact(INITRD, V64, GENERIC, FALSE), Artifact(INITRD, V64, <<>>, FALSE),
      Artifact(INITRD, V27, GENERIC, FALSE), Artifact(INITRD, V102, GENERIC, FALSE),
      Artifact(INITRD, V64, GENERIC, TRUE),
      Artifact(SYSTEM_MAP, V64, GENERIC, FALSE), Artifact(SYSTEM_MAP, V27, GENERIC, FALSE),
      Artifact(CONFIG, V64, GENERIC, FALSE), Artifact(CONFIG, V102, GENERIC, FALSE) }

ArtifactNode(a) ==
    IF a.link THEN LinkNode(0, 0, <<"x">>) ELSE FileNode(Masked(438), 0, 0, <<>>)

\* f with the artifacts of the set as entries of /boot
RECURSIVE WithArtifacts(_, _)
WithArtifactsFrom(f, as, a) ==
    WithArtifacts(Create(f, <<BOOT, ArtifactName(a)>>, ArtifactNode(a)), as \ {a})

WithArtifacts(f, as) ==
    IF as = {} THEN f ELSE WithArtifactsFrom(f, as, CHOOSE a \in as : TRUE)

\* / and /boot
BootFS ==
    WithNodes([dir |-> EmptyMap, ino |-> <<>>],
              << <<<<>>, DirNode(Masked(511), 0, 0)>>, <<<<BOOT>>, DirNode(Masked(511), 0, 0)>> >>)

\* /boot/extlinux/extlinux.conf
ExtlinuxFS ==
    WithNodes(BootFS,
              << <<<<BOOT, <<"e", "x", "t", "l", "i", "n", "u", "x">>>>,
                   DirNode(Masked(511), 0, 0)>>,
                 <<<<BOOT, <<"e", "x", "t", "l", "i", "n", "u", "x">>,
                     <<"e", "x", "t", "l", "i", "n", "u", "x", DOT, "c", "o", "n", "f">>>>,
                   FileNode(Masked(438), 0, 0, <<>>)>> >>)

\* No two entries of a directory have one name
DistinctNames(as) ==
    \A a \in as : \A b \in as : ArtifactName(a) = ArtifactName(b) => a = b

BootSets == {as \in SUBSET ArtifactPool : Cardinality(as) <= MaxBootFiles /\ DistinctNames(as)}

KernelInit ==
    /\ boot_dir = <<SLASH>> \o BOOT
    /\ vmlinuz_latest = <<>> /\ non_latest_kernels = {} /\ kpc = "start"
    /\ \E base \in {BootFS, ExtlinuxFS}, as \in BootSets : DataIdleOn(WithArtifacts(base, as))

(***************************************************************************)
(* The runs of gen_metadata followed by gen_data: the root /w/src holds    *)
(* the entries of a scene and at most MaxTreeNodes of its items; the       *)
(* destination /w/dst does not exist.                                      *)
(***************************************************************************)
MaxTreeNodes == 3

\* An entry of the root: its path, its node and, for a hard link, the path
\* of the file it is a link of
Item(path, node, of) == [path |-> path, node |-> node, of |-> of]

HOME == <<"h", "o", "m", "e">>
AUTOWARE == <<"a", "u", "t", "o", "w", "a", "r", "e">>
WS == <<"w", "s">>
HOOK == <<"h", "o", "o", "k">>
KERNEL64 == ArtifactName(Artifact(VMLINUZ, V64, GENERIC, FALSE))
INITRD64 == ArtifactName(Artifact(INITRD, V64, GENERIC, FALSE))
KERNEL102 == ArtifactName(Artifact(VMLINUZ, V102, GENERIC, FALSE))
CONFIG102 == ArtifactName(Artifact(CONFIG, V102, GENERIC, FALSE))

\* a, a/f, g, a/h a hard link of a/f, the symlinks l -> a, m -> ./g,
\* e -> /w/src/g and k -> nowhere, the directory t with t/x, the symlinks
\* n -> t/x, t/j -> x and t/u -> ../g, and the file q'
PlainItems ==
    << Item(<< <<"a">> >>, DirNode(493, 0, 0), <<>>),
       Item(<< <<"a">>, <<"f">> >>, FileNode(420, 1000, 1000, <<"F">>), <<>>),
       Item(<< <<"g">> >>, FileNode(384, 0, 0, <<"G">>), <<>>),
       Item(<< <<"a">>, <<"h">> >>, <<>>, << <<"a">>, <<"f">> >>),
       Item(<< <<"l">> >>, LinkNode(0, 0, <<"a">>), <<>>),
       Item(<< <<"m">> >>, LinkNode(1000, 1000, <<DOT, SLASH, "g">>), <<>>),
       Item(<< <<"e">> >>, LinkNode(0, 0, SrcArg \o <<SLASH, "g">>), <<>>),
       Item(<< <<"k">> >>, LinkNode(0, 0, <<"n", "o", "w", "h", "e", "r", "e">>), <<>>),
       Item(<< <<"t">> >>, DirNode(448, 0, 0), <<>>),
       Item(<< <<"t">>, <<"x">> >>, FileNode(420, 0, 0, <<"X">>), <<>>),
       Item(<< <<"n">> >>, LinkNode(0, 0, <<"t", SLASH, "x">>), <<>>),
       Item(<< <<"t">>, <<"j">> >>, LinkNode(0, 0, <<"x">>), <<>>),
       Item(<< <<"q", Q>> >>, FileNode(420, 0, 0, <<"Q">>), <<>>),
       Item(<< <<"t">>, <<"u">> >>, LinkNode(0, 0, <<DOT, DOT, SLASH, "g">>), <<>>) >>

\* boot with the latest kernel and its initrd
BootEntries ==
    << Item(<<BOOT>>, DirNode(493, 0, 0), <<>>),
       Item(<<BOOT, KERNEL64>>, FileNode(384, 0, 0, <<"K">>), <<>>),
       Item(<<BOOT, INITRD64>>, FileNode(420, 0, 0, <<"I">>), <<>>) >>

\* boot with the latest kernel, without its initrd
KernelOnlyEntries ==
    << Item(<<BOOT>>, DirNode(493, 0, 0), <<>>),
       Item(<<BOOT, KERNEL64>>, FileNode(384, 0, 0, <<"K">>), <<>>) >>

\* an older kernel and its config, a symlink to it, and g
BootItems ==
    << Item(<<BOOT, KERNEL102>>, FileNode(384, 0, 0, <<"O">>), <<>>),
       Item(<<BOOT, CONFIG102>>, FileNode(420, 0, 0, <<"C">>), <<>>),
       Item(<<BOOT, VMLINUZ>>, LinkNode(0, 0, KERNEL102), <<>>),
       Item(<< <<"g">> >>, FileNode(384, 0, 0, <<"G">>), <<>>) >>

\* home/autoware/ws/build and home/autoware/ws/src
AutowareEntries ==
    << Item(<<HOME>>, DirNode(493, 0, 0), <<>>),
       Item(<<HOME, AUTOWARE>>, DirNode(493, 1000, 1000), <<>>),
       Item(<<HOME, AUTOWARE, WS>>, DirNode(493, 1000, 1000), <<>>),
       Item(<<HOME, AUTOWARE, WS, BUILD>>, DirNode(493, 1000, 1000), <<>>),
       Item(<<HOME, AUTOWARE, WS, SRC>>, DirNode(493, 1000, 1000), <<>>) >>

\* build/p, build/p/x.so, build/y, build/p/z, the symlink s -> the path of
\* build/y from the root, build/p/hook with build/p/hook/f, src/c, and the
\* symlinks i -> /home/autoware/ws/build/y, the path of build/y in the
\* image, and o -> /w/src/home/autoware/ws/build/y, its path on the host
AutowareItems ==
    << Item(<<HOME, AUTOWARE, WS, BUILD, <<"p">> >>, DirNode(493, 1000, 1000), <<>>),
       Item(<<HOME, AUTOWARE, WS, BUILD, <<"p">>, <<"x", DOT, "s", "o">> >>,
            FileNode(493, 1000, 1000, <<"S">>), <<>>),
       Item(<<HOME, AUTOWARE, WS, BUILD, <<"y">> >>, FileNode(420, 1000, 1000, <<"Y">>), <<>>),
       Item(<<HOME, AUTOWARE, WS, BUILD, <<"p">>, <<"z">> >>,
            FileNode(420, 1000, 1000, <<"Z">>), <<>>),
       Item(<< <<"s">> >>, LinkNode(0, 0, JoinParts(<<HOME, AUTOWARE, WS, BUILD, <<"y">> >>)),
            <<>>),
       Item(<<HOME, AUTOWARE, WS, BUILD, <<"p">>, HOOK>>, DirNode(493, 1000, 1000), <<>>),
       Item(<<HOME, AUTOWARE, WS, BUILD, <<"p">>, HOOK, <<"f">> >>,
            FileNode(420, 1000, 1000, <<"H">>), <<>>),
       Item(<<HOME, AUTOWARE, WS, SRC, <<"c">> >>, FileNode(420, 1000, 1000, <<"C">>), <<>>),
       Item(<< <<"i">> >>,
            LinkNode(0, 0, <<SLASH>> \o JoinParts(<<HOME, AUTOWARE, WS, BUILD, <<"y">> >>)),
            <<>>),
       Item(<< <<"o">> >>,
            LinkNode(0, 0, SrcArg \o <<SLASH>>
                              \o JoinParts(<<HOME, AUTOWARE, WS, BUILD, <<"y">> >>)),
            <<>>) >>

\* the directory t with the file t/x
LinkedDirEntries ==
    << Item(<< <<"t">> >>, DirNode(448, 0, 0), <<>>),
       Item(<< <<"t">>, <<"x">> >>, FileNode(420, 0, 0, <<"X">>), <<>>) >>

\* the symlinks v -> t, y -> /w/src/v/x, z -> v/x and n -> t/x, g, the
\* directory t/d and the symlink r -> /w/src/t/../t/x
LinkedDirItems ==
    << Item(<< <<"v">> >>, LinkNode(0, 0, <<"t">>), <<>>),
       Item(<< <<"y">> >>, LinkNode(0, 0, SrcArg \o <<SLASH, "v", SLASH, "x">>), <<>>),
       Item(<< <<"z">> >>, LinkNode(0, 0, <<"v", SLASH, "x">>), <<>>),
       Item(<< <<"n">> >>, LinkNode(0, 0, <<"t", SLASH, "x">>), <<>>),
       Item(<< <<"g">> >>, FileNode(384, 0, 0, <<"G">>), <<>>),
       Item(<< <<"t">>, <<"d">> >>, DirNode(493, 0, 0), <<>>),
       Item(<< <<"r">> >>,
            LinkNode(0, 0, SrcArg \o <<SLASH, "t", SLASH, DOT, DOT, SLASH, "t", SLASH, "x">>),
            <<>>) >>

\* What the host has outside the root: /home/autoware/ws/build/y, a file at
\* the path that build/y has in the image
HostEntries ==
    << Item(<<HOME>>, DirNode(493, 0, 0), <<>>),
       Item(<<HOME, AUTOWARE>>, DirNode(493, 0, 0), <<>>),
       Item(<<HOME, AUTOWARE, WS>>, DirNode(493, 0, 0), <<>>),
       Item(<<HOME, AUTOWARE, WS, BUILD>>, DirNode(493, 0, 0), <<>>),
       Item(<<HOME, AUTOWARE, WS, BUILD, <<"y">> >>, FileNode(420, 0, 0, <<"y">>), <<>>) >>

\* A scene: the entries and items of the root, the rules of the ignore file
\* and what the host has outside the root
Scene(entries, items, rules) ==
    [host |-> <<>>, entries |-> entries, items |-> items, rules |-> rules]

OnHost(sc, host) == [sc EXCEPT !.host = host]

\* The rules of the ignore file: none, t, home/autoware/ws/build and
\* home/autoware/ws/src, home/autoware/ws/build and home/autoware/ws, or
\* home/autoware/ws/build alone on the host that has HostEntries
Scenes ==
    { Scene(<<>>, PlainItems, {}),
      Scene(<<>>, PlainItems, {<<"t">>}),
      Scene(BootEntries, BootItems, {}),
      Scene(KernelOnlyEntries, BootItems, {}),
      Scene(AutowareEntries, AutowareItems,
            {JoinParts(<<HOME, AUTOWARE, WS, BUILD>>), JoinParts(<<HOME, AUTOWARE, WS, SRC>>)}),
      Scene(LinkedDirEntries, LinkedDirItems, {<<"t">>}),
      Scene(AutowareEntries, AutowareItems,
            {JoinParts(<<HOME, AUTOWARE, WS, BUILD>>), JoinParts(<<HOME, AUTOWARE, WS>>)}),
      OnHost(Scene(AutowareEntries, AutowareItems, {JoinParts(<<HOME, AUTOWARE, WS, BUILD>>)}),
             HostEntries) }

\* f with the entry e below the directory root
WithItem(f, root, e) ==
    IF e.of = <<>> THEN Create(f, root \o e.path, e.node)
    ELSE [f EXCEPT !.dir = [q \in DOMAIN f.dir \cup {root \o e.path} |->
                               IF q = root \o e.path THEN f.dir[root \o e.of] ELSE f.dir[q]]]

\* f with the entries of es whose index is in picks, in the order of es
RECURSIVE WithItems(_, _, _, _, _)
WithItems(f, root, es, picks, k) ==
    IF k > Len(es) THEN f
    ELSE WithItems(IF k \in picks THEN WithItem(f, root, es[k]) ELSE f, root, es, picks, k + 1)

\* The parent of every picked item and the file of every picked hard link
\* are in the root
Closed(entries, items, picks) ==
    \A k \in picks :
        /\ \/ Len(items[k].path) = 1
           \/ \E j \in picks : items[j].path = Parent(items[k].path)
           \/ \E j \in 1..Len(entries) : entries[j].path = Parent(items[k].path)
        /\ \/ items[k].of = <<>>
           \/ \E j \in picks : items[j].path = items[k].of

Picks(sc) ==
    {ps \in SUBSET (1..Len(sc.items)) :
        Cardinality(ps) <= MaxTreeNodes /\ Closed(sc.entries, sc.items, ps)}

\* The host with its own entries
HostOf(sc) == WithItems(EmptySourceFS, <<>>, sc.host, 1..Len(sc.host), 1)

RootOf(sc, picks) ==
    WithItems(WithItems(HostOf(sc), <<W, SRC>>, sc.entries, 1..Len(sc.entries), 1),
              <<W, SRC>>, sc.items, picks, 1)

\* gen_metadata is called on f with the rules; gen_data is not called yet
MetaStart(f, rules) ==
    /\ target_dir = SrcArg /\ ignore = rules
    /\ metadata_dirs = {} /\ metadata_symlinks = {} /\ metadata_regulars = {}
    /\ paths_to_delete_abs = {} /\ files_to_delete = <<>> /\ folders_to_delete = <<>>
    /\ outcomes = <<>>
    /\ mpc = "start"
    /\ dst_dir = DstArg /\ src_dir = SrcArg
    /\ directory_file = <<>> /\ symlink_file = <<>> /\ regular_file = <<>>
    /\ fs = f /\ fs0 = f
    /\ pc = "idle" /\ idx = 0 /\ links_dict = EmptyMap /\ err = "" /\ log = <<>>

MetaInit == \E sc \in Scenes : \E picks \in Picks(sc) : MetaStart(RootOf(sc, picks), sc.rules)

(***************************************************************************)
(* The runs of the compression that are checked: at most MaxFiles files of *)
(* at most MaxSize bytes, a compressed_dir that is empty or holds the blob *)
(* of one of the files from an earlier run, and the arguments below.       *)
(***************************************************************************)
MaxFiles == 2
MaxSize == 3

Files == {File(n, c) : n \in 0..MaxSize, c \in 0..MaxSize}

FileLists == UNION {[1..n -> Files] : n \in 0..MaxFiles}

\* filesize_threshold 0 or 2, cmpr_ratio 1.25 or 2
Thresholds == {0, 2}
Ratios == {[num |-> 5, den |-> 4], [num |-> 2, den |-> 1]}

ZstdInit ==
    /\ regulars_final \in FileLists
    /\ compressed_dir \in {{}} \cup {{regulars_final[k]} : k \in DOMAIN regulars_final}
    /\ filesize_threshold \in Thresholds
    /\ cmpr_ratio \in Ratios
    /\ compress_algs = <<>> /\ zpc = "loop"

(***************************************************************************)
(* The calls of gen_payload that are checked: five files of one of two     *)
(* contents, a total size file that is there or not, and a compressed      *)
(* rootfs directory that is not passed, passed as None or passed as a name *)
(***************************************************************************)
Contents == {<<>>, <<"a">>}

OUT == <<SLASH, "o", SLASH>>

TotalSizes == {[isfile |-> FALSE, data |-> <<>>], [isfile |-> TRUE, data |-> <<"7">>]}

\* None is <<>>
CompressedArgs ==
    {[has_compressed |-> FALSE, compressed_rootfs_directory |-> <<>>],
     [has_compressed |-> TRUE, compressed_rootfs_directory |-> <<>>],
     [has_compressed |-> TRUE, compressed_rootfs_directory |-> <<"c">>]}

Call7(d, s, r, p, c, total, comp) ==
    [directory_file |-> Named(OUT \o <<"d">>, d),
     symlink_file |-> Named(OUT \o <<"s">>, s),
     regular_file |-> Named(OUT \o <<"r">>, r),
     persistent_file |-> Named(OUT \o <<"p">>, p),
     rootfs_directory |-> <<"r", "o", "o", "t", "f", "s">>,
     certificate_file |-> Named(OUT \o <<"c">>, c),
     total_regular_size_file |-> total,
     has_compressed |-> comp.has_compressed,
     compressed_rootfs_directory |-> comp.compressed_rootfs_directory]

SignInit ==
    /\ call \in {Call7(d, s, r, p, c, total, comp) :
                    d \in Contents, s \in Contents, r \in Contents, p \in Contents,
                    c \in Contents, total \in TotalSizes, comp \in CompressedArgs}
    /\ payload = <<>> /\ spc = "call"

(***************************************************************************)
(* Specifications                                                          *)
(***************************************************************************)
\* one record written by gen_metadata and parsed by data_gen
InitCodec == CodecInit /\ DataIdle /\ KernelIdle /\ MetaIdle /\ ZstdIdle /\ SignIdle

SpecCodec == InitCodec /\ [][CodecNext]_vars

\* gen_data on manifests of well-formed records
Init == CodecIdle /\ DataInit /\ KernelIdle /\ MetaIdle /\ ZstdIdle /\ SignIdle

Spec == Init /\ [][DataNext]_vars

\* _list_non_latest_kernels on the boot directories of KernelInit
InitKernel == CodecIdle /\ KernelInit /\ MetaIdle /\ ZstdIdle /\ SignIdle

SpecKernel == InitKernel /\ [][KernelNext]_vars

\* gen_data called with the arguments and destinations of PreInit
InitPre == CodecIdle /\ PreInit /\ KernelIdle /\ MetaIdle /\ ZstdIdle /\ SignIdle

SpecPre == InitPre /\ [][DataNext]_vars

\* gen_data on manifests that have malformed lines
InitBad == CodecIdle /\ BadInit /\ KernelIdle /\ MetaIdle /\ ZstdIdle /\ SignIdle

SpecBad == InitBad /\ [][DataNext]_vars

\* gen_metadata on a root, then gen_data on the manifests it wrote
InitE2E == CodecIdle /\ MetaInit /\ KernelIdle /\ ZstdIdle /\ SignIdle

E2ENext == MetaNext \/ KernelNext \/ DataNext

SpecE2E == InitE2E /\ [][E2ENext]_vars

\* the same runs, where an unlink or a shutil.rmtree may also fail
FaultyNext == E2ENext \/ FaultNext

SpecFaulty == InitE2E /\ [][FaultyNext]_vars

\* gen_payload
InitSign == CodecIdle /\ DataIdle /\ KernelIdle /\ MetaIdle /\ ZstdIdle /\ SignInit

SpecSign == InitSign /\ [][SignNext]_vars

\* the loop over regulars_final with a compressed_dir
InitZstd == CodecIdle /\ DataIdle /\ KernelIdle /\ MetaIdle /\ ZstdInit /\ SignIdle

SpecZstd == InitZstd /\ [][ZstdNext]_vars

(***************************************************************************)
(* Claims about the record format                                          *)
(***************************************************************************)
\* C1: parsing the record that the encoder writes for a directory, a symlink
\* or a regular file yields the entry's mode, uid, gid and path (under the
\* prefix) and, for a symlink, its target, for every path and target,
\* whatever quotes, commas and spaces they contain.
C1_RoundTrip ==
    cpc = "parsed" =>
        /\ inf.err = ""
        /\ inf.mode = entry.st.mode
        /\ inf.uid = entry.st.uid
        /\ inf.gid = entry.st.gid
        /\ inf.path = PathJoin(Prefix, entry.path)
        /\ (entry.kind = "symlink" => inf.target = entry.target)

\* The k-th trailing field of a record as written, "" when it was left out
FieldOr(tail, k) == IF Len(tail) >= k THEN tail[k] ELSE <<>>

SizeValue(t) ==
    CASE t = <<"7">> -> 7 [] t = <<"1", "0", "0">> -> 100 [] OTHER -> -1

\* C9: a regular record parses without error whichever suffix of size,
\* inode, compress_alg is left out; a field that is left out or empty is
\* absent in the result, and the fields after an empty field are still read.
C9_OptionalTail ==
    (cpc = "parsed" /\ entry.kind = "regular") =>
        /\ inf.err = ""
        /\ inf.size = SizeValue(FieldOr(entry.tail, 1))
        /\ inf.inode = FieldOr(entry.tail, 2)
        /\ inf.alg = FieldOr(entry.tail, 3)

\* C9 witness: the tail ,100,,zst was parsed to size 100, no inode, "zst"
C9_Witness ==
    /\ cpc = "parsed" /\ entry.kind = "regular"
    /\ entry.tail = << <<"1", "0", "0">>, <<>>, <<"z", "s", "t">> >>
    /\ inf.size = 100 /\ inf.inode = <<>> /\ inf.alg = <<"z", "s", "t">>

(***************************************************************************)
(* Claims about gen_data on well-formed manifests                          *)
(***************************************************************************)
\* Line n of the regular manifest, parsed, and its destination path
RegularAt(n) == RegularInf(regular_file[n])
DstOf(n) == Under(dst_dir_norm, RegularAt(n))

\* The calls logged for line n of the manifest of phase ph
CallsOf(ph, n) == {k \in DOMAIN log : log[k].phase = ph /\ log[k].n = n}
Logged(ph, n, op) == \E k \in CallsOf(ph, n) : log[k].op = op

\* The records of link count >= 2 and the first of them, in manifest
\* order, that has the link-group key of line n
Grouped(n) == RegularAt(n).nlink >= 2
SameGroup(m, n) ==
    Grouped(m) /\ Grouped(n) /\ LinksKey(RegularAt(m)) = LinksKey(RegularAt(n))
FirstOf(n) == CHOOSE m \in 1..n : SameGroup(m, n) /\ \A l \in 1..(m - 1) : ~SameGroup(l, n)

\* The inode that the path s names in the filesystem (0 if none)
InodeOf(f, s) ==
    IF ExistsAt(f, Resolve(f, s, FALSE)) THEN f.dir[Resolve(f, s, FALSE).path] ELSE 0

\* The first record of a group was copied from the content source; a later
\* one was linked to the destination of the first and is the same inode
HardlinkFidelity ==
    \A n \in 1..Len(regular_file) :
        (Grouped(n) /\ CallsOf("regulars", n) # {}) =>
            IF FirstOf(n) = n
            THEN /\ Logged("regulars", n, "copyfile")
                 /\ ~Logged("regulars", n, "link")
            ELSE /\ \A k \in CallsOf("regulars", n) :
                        log[k].op = "link" /\ log[k].src = DstOf(FirstOf(n))
                 /\ InodeOf(fs, DstOf(n)) # 0
                 /\ InodeOf(fs, DstOf(n)) = InodeOf(fs, DstOf(FirstOf(n)))

\* The destination recorded for a key stays what it is
LinksDictStable ==
    \A k \in DOMAIN links_dict : k \in DOMAIN links_dict' /\ links_dict'[k] = links_dict[k]

\* The entries below the directory root, relative to it, with their nodes
Below(f, root) ==
    {SubSeq(q, Len(root) + 1, Len(q)) :
        q \in {e \in DOMAIN f.dir : Len(e) > Len(root) /\ SubSeq(e, 1, Len(root)) = root}}

TreeBelow(f, root) == [q \in Below(f, root) |-> Node(f, root \o q)]

\* C2: when gen_data has ended on the manifests gen_metadata wrote for the
\* root, the destination holds exactly the paths that remain under the root,
\* each with the kind, mode, uid, gid, symlink target and content it has in
\* the root.
C2_Reconstruction ==
    (mpc = "done" /\ pc \in {"done", "failed"}) =>
        TreeBelow(fs, <<W, DST>>) = TreeBelow(fs, <<W, SRC>>)

\* C3: the records of link count >= 2 that share a link-group key are one
\* inode in the destination: the first in manifest order is copied from the
\* source, each later one is hardlinked to the destination of the first,
\* and the destination recorded for a key never changes once it is set.
C3_HardlinkFidelity == []HardlinkFidelity /\ [][LinksDictStable]_vars

\* C3 witness: gen_data has ended and a second record of a group is the
\* same inode as the first
C3_Witness ==
    /\ pc = "done"
    /\ \E n \in 1..Len(regular_file) :
          /\ Grouped(n) /\ FirstOf(n) # n
          /\ Logged("regulars", n, "link")
          /\ InodeOf(fs, DstOf(n)) = InodeOf(fs, DstOf(FirstOf(n)))
          /\ links_dict[LinksKey(RegularAt(n))] = DstOf(FirstOf(n))

\* The place of a phase in the order the records are to be applied in
Rank(ph) == CASE ph = "dirs" -> 1 [] ph = "symlinks" -> 2 [] ph = "regulars" -> 3

ManifestOf(ph) ==
    CASE ph = "dirs" -> directory_file
      [] ph = "symlinks" -> symlink_file
      [] ph = "regulars" -> regular_file

\* Line n of phase ph comes before line m of phase qh
Before(ph, n, qh, m) == Rank(ph) < Rank(qh) \/ (ph = qh /\ n < m)

\* Every line that comes before line m of phase qh has been applied
AllBefore(qh, m) ==
    \A ph \in {"dirs", "symlinks", "regulars"} : \A n \in 1..Len(ManifestOf(ph)) :
        Before(ph, n, qh, m) => CallsOf(ph, n) # {}

\* C6: every directory record is applied before any symlink record and
\* every symlink record before any regular record, each manifest in the
\* order of its lines; a symlink has its owner set without following the
\* link and is never chmod'ed.
C6_PhaseOrder ==
    /\ \A j \in DOMAIN log : \A k \in DOMAIN log :
          j < k => ~Before(log[k].phase, log[k].n, log[j].phase, log[j].n)
    /\ \A k \in DOMAIN log : AllBefore(log[k].phase, log[k].n)
    /\ \A k \in DOMAIN log :
          /\ log[k].op = "makedirs" => log[k].phase = "dirs"
          /\ log[k].op = "symlink" => log[k].phase = "symlinks"
          /\ log[k].op \in {"copyfile", "link"} => log[k].phase = "regulars"
          /\ log[k].phase = "symlinks" =>
                /\ log[k].op \in {"symlink", "chown"}
                /\ log[k].op = "chown" => ~log[k].follow
    /\ \A q \in DOMAIN fs.dir \ DOMAIN fs0.dir :
          Node(fs, q).kind = "symlink" => Node(fs, q).mode = SymlinkMode

\* C6 witness: gen_data has ended after records of the three manifests
C6_Witness ==
    /\ pc = "done"
    /\ Logged("dirs", 1, "chmod") /\ Logged("symlinks", 1, "chown")
    /\ Logged("regulars", 1, "copyfile")

\* The parent of the directory that line idx of the directory manifest names
ParentOfDir == SplitHead(Under(dst_dir_norm, DirectoryInf(directory_file[idx])))

\* C8: when a directory record is applied and the parent of its directory
\* is not in the destination, the step fails and creates nothing.
C8_MissingParentFails ==
    [][(pc = "dirs" /\ idx <= Len(directory_file) /\ ~Exists(fs, ParentOfDir))
          => (pc' = "failed" /\ fs' = fs)]_vars

(***************************************************************************)
(* Claims about the preconditions of gen_data                              *)
(***************************************************************************)
\* The entries of the directory that s names in f
EntriesOf(f, s) ==
    {q \in DOMAIN f.dir : Len(q) > 0 /\ IsDir(f, s) /\ Parent(q) = Resolve(f, s, TRUE).path}

\* C4: if the destination directory exists with at least one entry when
\* gen_data is called, gen_data raises before it applies any record and
\* nothing is created, changed or removed.
C4_NonEmptyDstUntouched ==
    (pc # "start" /\ EntriesOf(fs0, dst_dir_norm) # {}) =>
        (pc = "failed" /\ err # "" /\ log = <<>> /\ fs = fs0)

\* C4 witness: gen_data has raised for a destination that had an entry
\* and was not the source
C4_Witness ==
    /\ pc = "failed" /\ err = "ValueError: dst is not empty dir"
    /\ EntriesOf(fs0, dst_dir_norm) # {}
    /\ ~SameFile(fs0, dst_dir, src_dir)
    /\ fs = fs0

\* C5: whenever dst_dir and src_dir name one place, in whatever spelling,
\* gen_data raises the error for equal source and destination and has
\* created and written nothing.
C5_SameLocationDetected ==
    (pc # "start" /\ SameFile(fs0, dst_dir, src_dir)) =>
        (pc = "failed" /\ err = "ValueError: dst and src are same" /\ fs = fs0)

(***************************************************************************)
(* Claims about malformed lines                                            *)
(***************************************************************************)
Malformed(ph, n) == ManifestOf(ph)[n] \in MalformedLines

\* C7: a malformed line of any of the three manifests makes gen_data stop:
\* no call is made for the line nor for any line after it.
C7_MalformedFatal ==
    /\ \A k \in DOMAIN log :
          /\ ~Malformed(log[k].phase, log[k].n)
          /\ \A ph \in {"dirs", "symlinks", "regulars"} : \A n \in 1..Len(ManifestOf(ph)) :
                Before(ph, n, log[k].phase, log[k].n) => ~Malformed(ph, n)
    /\ pc = "done" =>
          \A ph \in {"dirs", "symlinks", "regulars"} : \A n \in 1..Len(ManifestOf(ph)) :
              ~Malformed(ph, n)

(***************************************************************************)
(* Claims about kernel pruning                                             *)
(***************************************************************************)
\* The artifacts that are entries of /boot, and their paths
InBoot(a) ==
    /\ <<BOOT, ArtifactName(a)>> \in DOMAIN fs.dir
    /\ a.link = (Node(fs, <<BOOT, ArtifactName(a)>>).kind = "symlink")
Present == {a \in ArtifactPool : InBoot(a)}
PathOf(a) == <<SLASH>> \o BOOT \o <<SLASH>> \o ArtifactName(a)

\* The kernels that are files, and those of them of the highest version
Kernels == {a \in Present : a.kind = VMLINUZ /\ ~a.link}
Highest == {k \in Kernels : \A j \in Kernels : ~KeyLess(k.ver, j.ver)}

\* The vmlinuz, initrd.img, System.map and config of the kernel k
Quartet(k) == {a \in Present : a.ver = k.ver /\ a.suf = k.suf}

HasInitrd(k) == \E a \in Quartet(k) : a.kind = INITRD /\ ~a.link

\* C10: without extlinux.conf and with the initrd of the latest kernel in
\* place, _list_non_latest_kernels returns the files named vmlinuz-*,
\* initrd.img-*, System.map-*, config-* that are not symlinks, less the
\* four of the latest kernel, the kernel of the highest version M.m.p-b
\* compared number by number, whatever its suffix.
C10_NonLatestKernels ==
    (/\ kpc = "done"
     /\ ~IsFile(fs, boot_dir \o <<SLASH>> \o EXTLINUX_CONF)
     /\ Highest # {}
     /\ \A k \in Highest : HasInitrd(k)) =>
        \E k \in Highest :
            non_latest_kernels = {PathOf(a) : a \in {b \in Present : ~b.link} \ Quartet(k)}

\* boot/extlinux/extlinux.conf is a file
Pinned == KindAt(fs, PathParts(boot_dir \o <<SLASH>> \o EXTLINUX_CONF, <<>>)) = "regular"

\* C11: when boot/extlinux/extlinux.conf is a file, _list_non_latest_kernels
\* returns the empty set, whatever kernel, initrd, System.map and config
\* files the boot directory holds.
C11_ExtlinuxPin == (kpc = "done" /\ Pinned) => non_latest_kernels = {}

\* C11 witness: the function has returned for a pinned boot directory that
\* holds the latest kernel with its initrd and an older kernel
C11_Witness ==
    /\ kpc = "done" /\ Pinned
    /\ \E k \in Highest : HasInitrd(k) /\ Kernels \ Quartet(k) # {}

(***************************************************************************)
(* Claims about gen_metadata                                               *)
(***************************************************************************)
\* The latest kernel is chosen and the root gen_metadata was called on has
\* no initrd.img of its version and suffix
MissingInitrd ==
    /\ vmlinuz_latest # <<>>
    /\ ~Exists(fs0, Companion(vmlinuz_latest, INITRD, KernelMatch(SplitTail(vmlinuz_latest))))

\* C12: when the initrd of the latest kernel does not exist, gen_metadata
\* aborts: it does not go on to classify, delete and write the manifests.
C12_MissingInitrdFatal == MissingInitrd => mpc \notin {"second", "delete", "done"}


\* The paths of the manifests, as gen_metadata names them on disk
Listed ==
    {AbsOf(target_dir, rel) : rel \in metadata_dirs \cup metadata_symlinks \cup metadata_regulars}

\* C13: when gen_metadata is done, every path _list_non_latest_kernels
\* returned is in the final deletion set, is gone from the tree and is in no
\* manifest.
C13_NonLatestDeleted ==
    mpc = "done" =>
        \A p \in non_latest_kernels :
            p \in paths_to_delete_abs /\ ~Exists(fs, p) /\ p \notin Listed


\* The symlinks under the root before the run, relative to it
SymlinksBefore == {rel \in GlobAll(fs0, target_dir) : IsLink(fs0, AbsOf(target_dir, rel))}

\* C14: once the first pass is over, every symlink found under the root,
\* broken or not, ignored or not, is in the symlink keep-set and is not in
\* the deletion set.
C14_SymlinksRecorded ==
    mpc \in {"second", "delete", "done"} =>
        \A rel \in SymlinksBefore :
            rel \in metadata_symlinks /\ AbsOf(target_dir, rel) \notin paths_to_delete_abs


\* The directories and regular files under the root before the run
PlainBefore == {rel \in GlobAll(fs0, target_dir) : ~IsLink(fs0, AbsOf(target_dir, rel))}

\* The place of rel in the tree
PlaceOf(rel) == PathParts(AbsOf(target_dir, rel), <<>>)

\* What was at rel before the run is still there
StillThere(rel) == Has(fs, PlaceOf(rel)) /\ Node(fs, PlaceOf(rel)) = Node(fs0, PlaceOf(rel))

\* The readings of the target raw of the symlink at link: relative to the
\* directory of the symlink or, when absolute, a path of the host or a path
\* of the image
Readings(link, raw) ==
    IF IsAbs(raw) THEN {raw, PathJoin(target_dir, LStrip(raw))}
    ELSE {PathJoin(SplitHead(link), raw)}

\* The places in the tree before the run that the symlink rel points to
TargetsOf(rel) ==
    {r.path : r \in {x \in {Resolve(fs0, s, TRUE) :
                               s \in Readings(AbsOf(target_dir, rel),
                                              Readlink(fs0, AbsOf(target_dir, rel)))} :
                        ExistsAt(fs0, x)}}

\* rel is the target of a symlink of the tree or a directory above one
TargetOrAbove(rel) ==
    \E l \in SymlinksBefore : \E t \in TargetsOf(l) :
        Len(PlaceOf(rel)) <= Len(t) /\ SubSeq(t, 1, Len(PlaceOf(rel))) = PlaceOf(rel)

\* An ignored path is rescued by the protected patterns or by a symlink
Rescued(rel) ==
    \/ KeptDespiteIgnore(fs0, AbsOf(target_dir, rel), rel, CheckSymlinkSpecialCase(ignore))
    \/ TargetOrAbove(rel)

UnderWorkspaceParts(parts) ==
    /\ Len(parts) >= 4
    /\ parts[1] = HOME /\ parts[2] = AUTOWARE
    /\ parts[4] \in {BUILD, SRC}

UnderWorkspace(rel) == UnderWorkspaceParts(PathParts(rel, <<>>))

\* The paths the protected-pattern override is about: ignore-matched, under
\* a workspace's build or src, and not rescued as the target of a symlink
Overridable ==
    {rel \in PlainBefore :
        Ignored(ignore, rel) /\ UnderWorkspace(rel) /\ ~TargetOrAbove(rel)}

\* rel is a directory, or a file that matches a protected sub-pattern
ProtectedPattern(rel) ==
    \/ IsDir(fs0, AbsOf(target_dir, rel))
    \/ IsFile(fs0, AbsOf(target_dir, rel)) /\ BuildFolderPatterns(rel)

C17_NoTriggerNoDeletion ==
    (mpc \in {"done", "failed"} /\ ~CheckSymlinkSpecialCase(ignore)) =>
        \A rel \in PlainBefore : IsFile(fs0, AbsOf(target_dir, rel)) => StillThere(rel)


\* The root as a place, and the places strictly below it down to t
RootPlace == PathParts(AbsPath(target_dir), <<>>)

InsideRoot(t) == Len(t) > Len(RootPlace) /\ SubSeq(t, 1, Len(RootPlace)) = RootPlace

DownTo(t) == {SubSeq(t, 1, k) : k \in (Len(RootPlace) + 1)..Len(t)}

\* The path of a place below the root, relative to the root
RelOf(q) == Relative(q, Len(RootPlace))

\* The targets inside the root of the recorded symlinks, under every
\* reading of their values, and the directories between the root and them
ProtectedPlaces ==
    UNION {DownTo(t) : t \in {x \in UNION {TargetsOf(l) : l \in metadata_symlinks} :
                                 InsideRoot(x)}}

\* A file of an ignored directory that nothing rescues
UnrescuedFiles ==
    {rel \in PlainBefore :
        /\ IsFile(fs0, AbsOf(target_dir, rel))
        /\ Ignored(ignore, rel)
        /\ ~Rescued(rel)}

\* C18: after the second pass, the target inside the root of every recorded
\* symlink (relative, absolute on the host, or absolute in the image) and
\* every directory between the root and it are not in the deletion set and
\* are in the directory or regular keep-set; an ignore-matched file that is
\* no symlink target and that nothing else rescues is in the deletion set.
C18_SymlinkTargetProtection ==
    mpc \in {"delete", "done", "failed"} =>
        /\ \A q \in ProtectedPlaces :
              /\ AbsOf(target_dir, RelOf(q)) \notin paths_to_delete_abs
              /\ RelOf(q) \in metadata_dirs \cup metadata_regulars
        /\ \A rel \in UnrescuedFiles : AbsOf(target_dir, rel) \in paths_to_delete_abs


\* The place the recorded symlink rel resolved to before the run, when it
\* is an existing path inside the root
ResolvedBefore(rel) ==
    {r.path : r \in {x \in {Resolve(fs0, AbsOf(target_dir, rel), TRUE)} :
                        ExistsAt(fs0, x) /\ InsideRoot(x.path)}}

\* C19: after the deletions, the target that a recorded symlink resolved to
\* inside the root before the run, and every directory between the root and
\* it, are still in the tree, and the symlink, where it is still in the
\* tree, resolves to an existing path.
C19_KeptSymlinkNeverDangles ==
    mpc \in {"done", "failed"} =>
        \A l \in metadata_symlinks : \A t \in ResolvedBefore(l) :
            /\ \A q \in DownTo(t) : Has(fs, q)
            /\ Has(fs, PlaceOf(l)) => Exists(fs, AbsOf(target_dir, l))


(* Claims about the compression *)
\* The file of an encoded record is below the size threshold, or its ratio
\* is below cmpr_ratio
TooSmall(file) == file.size < filesize_threshold

PoorRatio(file) ==
    file.compressed = 0 \/ RatioBelow(file.size, file.compressed, cmpr_ratio)

\* C20: of the files encoded so far with a compressed_dir, one below
\* filesize_threshold has an empty compress_alg, one whose ratio is below
\* cmpr_ratio has an empty compress_alg and no blob in compressed_dir, and
\* only one at or above the threshold whose ratio reaches cmpr_ratio has
\* the compress_alg zst.
C20_CompressionGate ==
    \A k \in DOMAIN compress_algs :
        /\ TooSmall(compress_algs[k].file) => compress_algs[k].compress_alg = <<>>
        /\ PoorRatio(compress_algs[k].file) =>
              /\ compress_algs[k].compress_alg = <<>>
              /\ compress_algs[k].file \notin compressed_dir
        /\ compress_algs[k].compress_alg = ZSTD_COMPRESSION_EXTENSION =>
              ~TooSmall(compress_algs[k].file) /\ ~PoorRatio(compress_algs[k].file)


\* C21: every step of the loop taken while a file is left, a step in which
\* the compression fails included, writes the record of that file and
\* leaves the loop running for the remaining files; a record written after
\* a failure has an empty compress_alg.
C21_CompressionFailureTolerated ==
    [][(zpc = "loop" /\ regulars_final # <<>>) =>
          /\ zpc' = "loop"
          /\ Len(compress_algs') = Len(compress_algs) + 1
          /\ compress_algs'[Len(compress_algs')].file = Head(regulars_final)]_vars


\* What _list_non_latest_kernels can return on the tree f
NonLatestKernelsOn(f, dir) ==
    IF IsFile(f, dir \o <<SLASH>> \o EXTLINUX_CONF) \/ KernelFiles(f, dir) = {} THEN {{}}
    ELSE {NonLatestOf(f, dir, l, KernelMatch(SplitTail(l))) : l \in Latest(KernelFiles(f, dir))}

\* The classification of one more run of gen_metadata with the same
\* arguments on the tree f, nlk the non-latest kernels it finds and
\* protected the targets of its symlinks: what it deletes and what it keeps
RunWith(f, nlk, protected) ==
    [deleted  |-> Candidates(f, target_dir, nlk, ignore) \ protected,
     symlinks |-> LiveSymlinks(f, target_dir),
     dirs     |-> {rel \in Kept(f, target_dir, nlk, ignore) \cup protected :
                      IsDir(f, AbsOf(target_dir, rel))},
     regulars |-> {rel \in Kept(f, target_dir, nlk, ignore) \cup protected :
                      IsFile(f, AbsOf(target_dir, rel))}]

RunsOn(f) ==
    {RunWith(f, nlk, Protected(f, target_dir, LiveSymlinks(f, target_dir))) :
        nlk \in NonLatestKernelsOn(f, AbsOf(target_dir, BOOT))}

\* The manifests the run r writes on the tree f are those already written
SameManifests(f, r) ==
    /\ Manifest(symlink_list(f, target_dir, SortedPaths(r.symlinks))) = symlink_file
    /\ Manifest(dirs_list(f, target_dir, SortedPaths(r.dirs))) = directory_file
    /\ Manifest(regular_list(f, target_dir, SortedPaths(r.regulars))) = regular_file

\* C22: when gen_metadata has written its manifests, a second run with the
\* same arguments on the tree it left deletes nothing and writes the same
\* directory, symlink and regular manifests.
C22_SecondRunIdentical ==
    (mpc = "done" /\ pc = "start") =>
        \A r \in RunsOn(fs) : r.deleted = {} /\ SameManifests(fs, r)


\* The path that line k of the directory manifest names
DirPathAt(k) == DirectoryInf(directory_file[k]).path

\* C23: in the directory manifest gen_metadata wrote, the parent of every
\* entry, when it is not the root, is the entry of an earlier line.
C23_ParentsFirst ==
    mpc = "done" =>
        \A k \in DOMAIN directory_file :
            SplitHead(DirPathAt(k)) # <<SLASH>> =>
                \E j \in 1..(k - 1) : DirPathAt(j) = SplitHead(DirPathAt(k))


(* Claims about gen_payload *)
\* The keys of the entries of the list of a payload, in order
KeysOf(list) == [k \in DOMAIN list |-> list[k][1][1]]

SevenKeys ==
    <<"version", "directory", "symboliclink", "regular", "persistent", "rootfs_directory",
      "certificate">>

\* The keys the call must give: the seven, then total_regular_size iff
\* the total size file exists, then compressed_rootfs_directory iff a
\* compressed rootfs directory is given
KeysWanted ==
    SevenKeys
    \o (IF call.total_regular_size_file.isfile THEN <<"total_regular_size">> ELSE <<>>)
    \o (IF call.has_compressed /\ call.compressed_rootfs_directory # <<>>
        THEN <<"compressed_rootfs_directory">> ELSE <<>>)

\* C24: every call of gen_payload returns a payload whose entries are
\* version, directory, symboliclink, regular, persistent, rootfs_directory
\* and certificate in this order, followed by total_regular_size iff the
\* total size file exists and by compressed_rootfs_directory iff a
\* compressed rootfs directory is given.
C24_PayloadComposition ==
    spc # "call" =>
        /\ spc = "done"
        /\ KeysOf(payload.b64.json) = KeysWanted


(* Claims about the deletion phase of gen_metadata *)
\* Directory a lies above the path d
Above(a, d) == a # d /\ StartsWith(d, a \o <<SLASH>>)

\* The places in the report of the deletions
Attempts == DOMAIN outcomes

\* The path of attempt i was a file, a directory, when the run began
FileAttempt(i) == IsFile(fs0, outcomes[i].path)

DirAttempt(i) == IsDir(fs0, outcomes[i].path)

Tried == [k \in Attempts |-> outcomes[k].path]

\* The files and then the directories of the deletion set, as the deletion
\* phase is to go through them
ToTry ==
    SortedReverse({x \in paths_to_delete_abs : IsFile(fs0, x)})
        \o SortedReverse({x \in paths_to_delete_abs : IsDir(fs0, x)})

\* Whatever the outcomes so far, the paths tried and the paths still to try
\* are the deletion set, and a path reported as deleted is gone
AllTried ==
    mpc \in {"delete", "done", "failed"} =>
        /\ Tried \o files_to_delete \o folders_to_delete = ToTry
        /\ \A k \in Attempts : outcomes[k].success => ~Exists(fs, outcomes[k].path)
        /\ mpc # "delete" => Tried = ToTry

\* A step of the deletion phase tries the next path and reports it, whether
\* it succeeds or fails, or is the writing of the manifests after the last
\* path
GoesOn ==
    mpc = "delete" =>
        \/ /\ mpc' = "delete"
           /\ Len(outcomes') = Len(outcomes) + 1
           /\ outcomes'[Len(outcomes')].path = ToTry[Len(outcomes')]
        \/ /\ mpc' \in {"done", "failed"}
           /\ Tried = ToTry

\* C26: a deletion that fails does not end the run: every path of the
\* deletion set is still tried and its outcome reported, and gen_metadata
\* goes on to the writing of the manifests.
C26_FailedDeletionTolerated == []AllTried /\ [][GoesOn]_vars

\* C26 witness: manifests written by a run in which a deletion failed and a
\* later one succeeded
C26_Witness ==
    /\ mpc = "done"
    /\ \E i \in Attempts : \E j \in Attempts :
          i < j /\ ~outcomes[i].success /\ outcomes[j].success


\* The directory, symlink and regular keep-sets, as paths
KeptPaths ==
    {AbsOf(target_dir, rel) : rel \in metadata_dirs \cup metadata_symlinks \cup metadata_regulars}

\* The directories of the final deletion set
DoomedDirs == {d \in paths_to_delete_abs : IsDir(fs0, d)}

\* C27: after the deletion phase every path of the directory, symlink and
\* regular keep-sets still exists: no kept path lies below a directory of
\* the final deletion set, and the writing of the manifests does not fail on
\* a path that gen_metadata removed.
C27_KeptPathsSurvive ==
    /\ mpc = "delete" =>
          \A kept \in KeptPaths : \A d \in DoomedDirs : ~Above(d, kept)
    /\ (mpc = "delete" /\ files_to_delete = <<>> /\ folders_to_delete = <<>>) =>
          ~Unreadable(fs, target_dir,
                      metadata_dirs \cup metadata_symlinks \cup metadata_regulars)
    /\ mpc # "failed"


(* Claims about the two classification passes of gen_metadata *)
\* The paths of a keep-set
AbsAll(rels) == {AbsOf(target_dir, rel) : rel \in rels}

\* After both passes the keep-sets and the final deletion set are pairwise
\* disjoint, and no symlink is among the directories or the regular files
Partitioned ==
    mpc = "delete" =>
        /\ metadata_dirs \cap metadata_symlinks = {}
        /\ metadata_dirs \cap metadata_regulars = {}
        /\ metadata_symlinks \cap metadata_regulars = {}
        /\ KeptPaths \cap paths_to_delete_abs = {}
        /\ \A s \in AbsAll(metadata_dirs \cup metadata_regulars) : ~IsLink(fs0, s)

\* The second pass takes out of the deletion set the paths it adds to a
\* keep-set, and no other
MovedWhenKept ==
    mpc = "second" =>
        paths_to_delete_abs \ paths_to_delete_abs'
            = AbsAll((metadata_dirs' \cup metadata_regulars')
                        \ (metadata_dirs \cup metadata_regulars))

\* C28: after both classification passes the directory, symlink and regular
\* keep-sets and the final deletion set are pairwise disjoint, no symlink is
\* listed as a directory or a regular file, and the second pass moves a path
\* out of the deletion set exactly when it adds it to a keep-set.
C28_ClassificationPartition == []Partitioned /\ [][MovedWhenKept]_vars


(* Claims about the records of link count 1 *)
\* The calls of _gen_regulars that made a hard link
LinkCalls == {k \in DOMAIN log : log[k].phase = "regulars" /\ log[k].op = "link"}

\* Line n of regular_file is a record of link count 1 that was applied
AloneApplied(n) ==
    /\ RegularAt(n).err = ""
    /\ RegularAt(n).nlink = 1
    /\ CallsOf("regulars", n) # {}

\* C29: in _gen_regulars a record of link count 1 is copied from the
\* content source and is never made a hard link of another record's file,
\* and no later record is made a hard link of its file.
C29_SingleLinkIndependent ==
    \A n \in 1..Len(regular_file) :
        AloneApplied(n) =>
            /\ \A k \in CallsOf("regulars", n) :
                  /\ log[k].op # "link"
                  /\ log[k].op = "copyfile" => log[k].src = Under(src_dir_norm, RegularAt(n))
            /\ \A k \in LinkCalls : log[k].n > n => log[k].src # DstOf(n)


(* Claims about the places gen_data writes to *)
\* The place q is dst_dir or lies inside it
InsideDst(q) ==
    /\ Len(q) >= Len(PathParts(dst_dir_norm, <<>>))
    /\ SubSeq(q, 1, Len(PathParts(dst_dir_norm, <<>>))) = PathParts(dst_dir_norm, <<>>)

\* The place q is as it was when gen_data was called
Untouched(q) ==
    /\ q \in DOMAIN fs.dir /\ q \in DOMAIN fs0.dir
    /\ Node(fs, q) = Node(fs0, q)
    /\ NLink(fs, q) = NLink(fs0, q)

\* C30: whatever the records, with or without a leading slash in their
\* paths, nothing outside dst_dir is created or modified by gen_data: no
\* sibling of dst_dir and nothing in src_dir.
C30_ConfinedToDestination ==
    pc # "idle" =>
        \A q \in DOMAIN fs.dir \cup DOMAIN fs0.dir : ~InsideDst(q) => Untouched(q)

=============================================================================
